---- MODULE Spec2Model ----
(***************************************************************************)
(* Answer alignment and scoring engine of the descriptive exam evaluator   *)
(* (src/Final_Model1(descriptive)).                                        *)
(*                                                                         *)
(* Texts are sequences of one-character strings, JSON documents are tagged *)
(* records, decimal numbers are integers in fixed units (see the scales).  *)
(* Each pure function of the engine is an operator computed the way the    *)
(* code computes it; each specification drives one entry point.            *)
(***************************************************************************)
EXTENDS Integers, Sequences, FiniteSets, TLC

VARIABLES
    ch_pc, student_text, choice,
    al_pc, model_question, student_root, aligned,
    sc_pc, sc_args, sc_ext, sc_result,
    ev_pc, model_doc, student_doc, ev_config, report, qi, cur, embed,
    nm_pc, nm_args, nm_once, nm_twice,
    gm_pc, gm_lock, gm_model, gm_local, gm_built, gm_name, gm_ret, gm_calls,
    uploads, up_prev, up_last

choiceVars == << ch_pc, student_text, choice >>

alignVars == << al_pc, model_question, student_root, aligned >>

scoreVars == << sc_pc, sc_args, sc_ext, sc_result >>

evalVars == << ev_pc, model_doc, student_doc, ev_config, report, qi, cur, embed >>

normVars == << nm_pc, nm_args, nm_once, nm_twice >>

modelVars == << gm_pc, gm_lock, gm_model, gm_local, gm_built, gm_name, gm_ret, gm_calls >>

uploadVars == << uploads, up_prev, up_last >>

vars == << ch_pc, student_text, choice, al_pc, model_question, student_root, aligned,
           sc_pc, sc_args, sc_ext, sc_result,
           ev_pc, model_doc, student_doc, ev_config, report, qi, cur, embed,
           nm_pc, nm_args, nm_once, nm_twice,
           gm_pc, gm_lock, gm_model, gm_local, gm_built, gm_name, gm_ret, gm_calls,
           uploads, up_prev, up_last >>

(***************************************************************************)
(* Bounds                                                                  *)
(***************************************************************************)
MaxTextLen == 4

MaxSubparts == 2

MaxKeys == 2

\* threads of the process and calls of _get_model by each of them
MaxThreads == 2

MaxCalls == 2

\* documents in the uploads collection
MaxUploads == 3

(***************************************************************************)
(* Characters and Python string primitives                                 *)
(***************************************************************************)
UpperLetters == << "A", "B", "C", "D", "E", "F", "G", "H", "I", "J", "K", "L", "M",
                   "N", "O", "P", "Q", "R", "S", "T", "U", "V", "W", "X", "Y", "Z" >>

LowerLetters == << "a", "b", "c", "d", "e", "f", "g", "h", "i", "j", "k", "l", "m",
                   "n", "o", "p", "q", "r", "s", "t", "u", "v", "w", "x", "y", "z" >>

Digits == { "0", "1", "2", "3", "4", "5", "6", "7", "8", "9" }

Range(f) == { f[i] : i \in DOMAIN f }

UpperSet == Range(UpperLetters)

LowerSet == Range(LowerLetters)

\* str.lower() and str.upper() on one letter
LowerTable ==
    [c \in UpperSet |-> LowerLetters[CHOOSE i \in DOMAIN UpperLetters : UpperLetters[i] = c]]

UpperTable ==
    [c \in LowerSet |-> UpperLetters[CHOOSE i \in DOMAIN LowerLetters : LowerLetters[i] = c]]

IsDigit(c) == c \in Digits

\* \w of the re module
WordChars == UpperSet \cup LowerSet \cup Digits \cup { "_" }

IsWordChar(c) == c \in WordChars

\* \s of the re module and the characters str.strip() removes
IsSpace(c) == c = " "

LowerChar(c) == IF c \in UpperSet THEN LowerTable[c] ELSE c

UpperChar(c) == IF c \in LowerSet THEN UpperTable[c] ELSE c

\* str.lower()
Lower(s) == [i \in DOMAIN s |-> LowerChar(s[i])]

\* str.replace(c, "")
RemoveChar(s, c) == SelectSeq(s, LAMBDA x : x # c)

\* str.strip(): the text between its first and its last non-space character
Strip(s) ==
    LET solid == { i \in DOMAIN s : ~IsSpace(s[i]) }
    IN  IF solid = {} THEN << >>
        ELSE SubSeq(s, CHOOSE i \in solid : \A j \in solid : i <= j,
                       CHOOSE i \in solid : \A j \in solid : i >= j)

\* str.lstrip()
LStrip(s) ==
    LET solid == { i \in DOMAIN s : ~IsSpace(s[i]) }
    IN  IF solid = {} THEN << >>
        ELSE SubSeq(s, CHOOSE i \in solid : \A j \in solid : i <= j, Len(s))

\* the truth value of text.strip()
IsBlank(s) == \A i \in DOMAIN s : IsSpace(s[i])

\* all texts over an alphabet up to a length
TextsUpTo(alphabet, n) == UNION { [1..k -> alphabet] : k \in 0..n }

(***************************************************************************)
(* choice_handler.py                                                       *)
(***************************************************************************)
None == "None"

MCQ_LETTERS == { "a", "b", "c", "d", "A", "B", "C", "D" }

\* re.findall(r"\(([a-dA-D])\)", text): leftmost non-overlapping scan
RECURSIVE FindParen(_, _)
FindParen(s, i) ==
    IF i + 2 > Len(s) THEN << >>
    ELSE IF s[i] = "(" /\ s[i + 1] \in MCQ_LETTERS /\ s[i + 2] = ")"
         THEN << s[i + 1] >> \o FindParen(s, i + 3)
         ELSE FindParen(s, i + 1)

\* \b at the gap before position i (1..Len+1)
WordBoundary(s, i) ==
    LET before == i > 1 /\ IsWordChar(s[i - 1])
        after  == i <= Len(s) /\ IsWordChar(s[i])
    IN  before # after

\* re.findall(r"\b([a-dA-D])\b", text)
RECURSIVE FindLoose(_, _)
FindLoose(s, i) ==
    IF i > Len(s) THEN << >>
    ELSE IF WordBoundary(s, i) /\ s[i] \in MCQ_LETTERS /\ WordBoundary(s, i + 1)
         THEN << s[i] >> \o FindLoose(s, i + 1)
         ELSE FindLoose(s, i + 1)

\* plausible slip: the first collected letter is returned without the
\* distinct-set test
pick_student_choice_first(text) ==
    LET found == FindParen(text, 1) \o FindLoose(text, 1)
        candidates == [i \in DOMAIN found |-> UpperChar(found[i])]
    IN  IF candidates = << >> THEN None ELSE candidates[1]

pick_student_choice(text) ==
    LET found == SelectSeq(FindParen(text, 1) \o FindLoose(text, 1),
                           LAMBDA c : c \in MCQ_LETTERS)
        candidates == [i \in DOMAIN found |-> UpperChar(found[i])]
    IN  IF candidates = << >> THEN None
        ELSE IF Cardinality(Range(candidates)) > 1 THEN None
        ELSE candidates[1]

\* _MCQ_PREFIX.match(text.strip()): "(" \s* letter \s* ")"
is_mcq(model_answer_text) ==
    LET s == Strip(model_answer_text)
        afterOpen == IF s # << >> THEN LStrip(Tail(s)) ELSE << >>
        afterLetter == IF afterOpen # << >> THEN LStrip(Tail(afterOpen)) ELSE << >>
    IN  /\ s # << >> /\ Head(s) = "("
        /\ afterOpen # << >> /\ Head(afterOpen) \in MCQ_LETTERS
        /\ afterLetter # << >> /\ Head(afterLetter) = ")"

(***************************************************************************)
(* JSON documents as json.load returns them                                *)
(***************************************************************************)
\* str
Str(text) == [t |-> "str", s |-> text, keys |-> << >>, vals |-> << >>]

\* list
Lst(items) == [t |-> "list", s |-> << >>, keys |-> << >>, vals |-> items]

\* dict, in insertion order; the keys are distinct
Dct(ks, vs) == [t |-> "dict", s |-> << >>, keys |-> ks, vals |-> vs]

\* None (JSON null)
Null == [t |-> "null", s |-> << >>, keys |-> << >>, vals |-> << >>]

\* a number or a boolean
Num == [t |-> "num", s |-> << >>, keys |-> << >>, vals |-> << >>]

\* the result of a lookup that found nothing; Python has only the one None
NotFound == Null

\* sep.join(texts)
RECURSIVE Join(_, _)
Join(texts, sep) ==
    IF texts = << >> THEN << >>
    ELSE IF Len(texts) = 1 THEN texts[1]
    ELSE texts[1] \o sep \o Join(Tail(texts), sep)

(***************************************************************************)
(* align_answers.py                                                        *)
(***************************************************************************)
\* plausible slip: the id is lowercased but keeps its punctuation
norm_id_keep_punct(s) ==
    IF s = << >> THEN << >> ELSE Lower(Strip(s))

norm_id(s) ==
    IF s = << >> THEN << >>
    ELSE Lower(RemoveChar(RemoveChar(RemoveChar(Strip(s), "("), ")"), "."))

RECURSIVE flatten_value(_)
flatten_value(v) ==
    IF v.t = "str" THEN v.s
    ELSE IF v.t \in { "list", "dict" }
         THEN Join([i \in DOMAIN v.vals |-> flatten_value(v.vals[i])], << " " >>)
         ELSE << >>

extract_digits(s) == SelectSeq(s, IsDigit)

candidate_keys_for(qnum) ==
    { << "q" >> \o qnum,
      << "q", "u", "e", "s", "t", "i", "o", "n" >> \o qnum,
      << "q", "u", "e", "s" >> \o qnum,
      qnum,
      << "q", "-" >> \o qnum,
      << "q", "u", "e", "s", "t", "i", "o", "n", "-" >> \o qnum,
      << "q", "u", "e", "s", "-" >> \o qnum,
      << "q", " " >> \o qnum,
      << "q", "u", "e", "s", "t", "i", "o", "n", " " >> \o qnum,
      << "q", "u", "e", "s", " " >> \o qnum }

\* the test of lines 44-47 and of line 54 on one key
KeyMatches(k, qnum) ==
    LET kn == norm_id(k)
    IN  \/ \E c \in candidate_keys_for(qnum) : kn = norm_id(c)
        \/ extract_digits(kn) = extract_digits(qnum) /\ extract_digits(qnum) # << >>

\* the value of the first key of a dict that matches, NotFound if none does
FirstMatch(d, qnum) ==
    LET hits == { i \in DOMAIN d.keys : KeyMatches(d.keys[i], qnum) }
    IN  IF hits = {} THEN NotFound
        ELSE d.vals[CHOOSE i \in hits : \A j \in hits : i <= j]

\* plausible slip: the keys one level down are searched before the top level
find_question_section_nested_first(root, qnum) ==
    IF root.t # "dict" THEN NotFound
    ELSE LET top == { i \in DOMAIN root.keys : KeyMatches(root.keys[i], qnum) }
             inner == { i \in DOMAIN root.vals :
                            /\ root.vals[i].t = "dict"
                            /\ \E j \in DOMAIN root.vals[i].keys :
                                   KeyMatches(root.vals[i].keys[j], qnum) }
         IN  IF inner # {}
             THEN FirstMatch(root.vals[CHOOSE i \in inner : \A j \in inner : i <= j], qnum)
             ELSE IF top # {} THEN FirstMatch(root, qnum)
                  ELSE NotFound

find_question_section(root, qnum) ==
    IF root.t # "dict" THEN NotFound
    ELSE LET top == { i \in DOMAIN root.keys : KeyMatches(root.keys[i], qnum) }
             \* pass 2: the dict values that hold a matching key, in order
             inner == { i \in DOMAIN root.vals :
                            /\ root.vals[i].t = "dict"
                            /\ \E j \in DOMAIN root.vals[i].keys :
                                   KeyMatches(root.vals[i].keys[j], qnum) }
         IN  IF top # {} THEN FirstMatch(root, qnum)
             ELSE IF inner # {}
                  THEN FirstMatch(root.vals[CHOOSE i \in inner : \A j \in inner : i <= j], qnum)
                  ELSE NotFound

\* "student_root or {}"
OrEmptyDict(root) ==
    IF \/ root.t \in { "null" }
       \/ root.t = "str" /\ root.s = << >>
       \/ root.t \in { "list", "dict" } /\ root.vals = << >>
    THEN Dct(<< >>, << >>)
    ELSE root

\* extracted.setdefault(keyn, ""); extracted[keyn] = (extracted[keyn] + " " + text).strip()
Accumulate(extracted, keyn, text) ==
    LET old == IF keyn \in DOMAIN extracted THEN extracted[keyn] ELSE << >>
    IN  [k \in DOMAIN extracted \cup { keyn } |->
            IF k = keyn THEN Strip(old \o << " " >> \o text) ELSE extracted[k]]

RECURSIVE walk(_, _, _, _)
RECURSIVE WalkChildren(_, _, _, _, _)

\* the loops of lines 84-89 and 93-98 from child i on: the children of a
\* dict under their own keys, the items of a list under the key of the list
WalkChildren(key, val, i, extracted, desired_ids) ==
    IF i > Len(val.vals) THEN extracted
    ELSE WalkChildren(key, val, i + 1,
                      walk(IF val.t = "dict" THEN val.keys[i] ELSE key,
                           val.vals[i], extracted, desired_ids),
                      desired_ids)

\* plausible slip: a string under a key that matches no subpart goes to the
\* first subpart
walk_unmatched_to_first(key, val, extracted, desired_ids) ==
    LET keyn == norm_id(key)
        text == flatten_value(val)
        here == IF keyn # << >> /\ keyn \in Range(desired_ids) /\ ~IsBlank(text)
                THEN Accumulate(extracted, keyn, text)
                ELSE IF val.t = "str" /\ desired_ids # << >> /\ ~IsBlank(text)
                     THEN Accumulate(extracted, desired_ids[1], text)
                     ELSE extracted
    IN  IF val.t \in { "dict", "list" }
        THEN WalkChildren(key, val, 1, here, desired_ids)
        ELSE here

\* walk(key, val), returning the updated value of extracted
walk(key, val, extracted, desired_ids) ==
    LET keyn == norm_id(key)
        text == flatten_value(val)
        here == IF keyn # << >> /\ keyn \in Range(desired_ids) /\ ~IsBlank(text)
                THEN Accumulate(extracted, keyn, text)
                ELSE extracted
    IN  IF val.t \in { "dict", "list" }
        THEN WalkChildren(key, val, 1, here, desired_ids)
        ELSE here

\* sp["id"] of line 60 raises KeyError on a subpart without an id
AlignRaises(mq) == \E i \in DOMAIN mq.subparts : ~mq.subparts[i].has_id

EmptyMap == [k \in {} |-> << >>]

\* plausible slip: the single-blob fallback taken for any number of subparts
align_student_to_model_any_blob(mq, root) ==
    LET desired_ids == [i \in DOMAIN mq.subparts |-> norm_id(mq.subparts[i].id)]
        q_digits == extract_digits(Strip(mq.question_number))
        section == find_question_section(OrEmptyDict(root), q_digits)
        extracted ==
            IF section.t = "dict"
            THEN WalkChildren(<< >>, section, 1, EmptyMap, desired_ids)
            ELSE IF Len(desired_ids) >= 1
                 THEN [k \in { desired_ids[1] } |-> flatten_value(section)]
                 ELSE EmptyMap
    IN  IF section.t = "null" THEN EmptyMap
        ELSE [k \in DOMAIN extracted \cap Range(desired_ids) |-> extracted[k]]

align_student_to_model(mq, root) ==
    LET desired_ids == [i \in DOMAIN mq.subparts |-> norm_id(mq.subparts[i].id)]
        q_digits == extract_digits(Strip(mq.question_number))
        section == find_question_section(OrEmptyDict(root), q_digits)
        extracted ==
            IF section.t = "dict"
            THEN WalkChildren(<< >>, section, 1, EmptyMap, desired_ids)
            ELSE IF Len(desired_ids) = 1
                 THEN [k \in { desired_ids[1] } |-> flatten_value(section)]
                 ELSE EmptyMap
    IN  IF section.t = "null" THEN EmptyMap
        ELSE [k \in DOMAIN extracted \cap Range(desired_ids) |-> extracted[k]]

(***************************************************************************)
(* Decimal numbers.  Scores (cosine, semantic, keyword) are integers in    *)
(* units of 1/ScoreScale, weights in tenths, thresholds and max_marks in   *)
(* hundredths, awarded marks in units of 1/ScoreScale.                     *)
(***************************************************************************)
ScoreScale == 10000

\* round(): to the nearest integer, ties to the even one, of num/den (den > 0)
RoundHalfEven(num, den) ==
    LET q == num \div den
        r == num % den
    IN  IF 2 * r < den THEN q
        ELSE IF 2 * r > den THEN q + 1
        ELSE IF q % 2 = 0 THEN q ELSE q + 1

Min(a, b) == IF a <= b THEN a ELSE b

Max(a, b) == IF a >= b THEN a ELSE b

RECURSIVE IntPow(_, _)
IntPow(x, n) == IF n = 0 THEN 1 ELSE x * IntPow(x, n - 1)

(***************************************************************************)
(* normalize_text.py                                                       *)
(***************************************************************************)
STOPWORDS ==
    { << "a" >>,
      << "a", "n" >>,
      << "t", "h", "e" >>,
      << "a", "n", "d" >>,
      << "o", "r" >>,
      << "b", "u", "t" >>,
      << "i", "f" >>,
      << "s", "o" >>,
      << "t", "o" >>,
      << "o", "f" >>,
      << "i", "n" >>,
      << "o", "n" >>,
      << "a", "t" >>,
      << "b", "y" >>,
      << "f", "o", "r" >>,
      << "w", "i", "t", "h" >>,
      << "a", "s" >>,
      << "i", "s" >>,
      << "a", "r", "e" >>,
      << "w", "a", "s" >>,
      << "w", "e", "r", "e" >>,
      << "b", "e" >>,
      << "b", "e", "e", "n" >>,
      << "b", "e", "i", "n", "g" >>,
      << "t", "h", "i", "s" >>,
      << "t", "h", "a", "t" >>,
      << "t", "h", "e", "s", "e" >>,
      << "t", "h", "o", "s", "e" >>,
      << "i", "t" >>,
      << "i", "t", "s" >>,
      << "f", "r", "o", "m" >>,
      << "i", "n", "t", "o" >>,
      << "a", "b", "o", "u", "t" >>,
      << "o", "v", "e", "r" >>,
      << "a", "f", "t", "e", "r" >>,
      << "b", "e", "f", "o", "r", "e" >>,
      << "n", "o", "t" >>,
      << "n", "o" >>,
      << "d", "o" >>,
      << "d", "o", "e", "s" >>,
      << "d", "i", "d" >>,
      << "d", "o", "i", "n", "g" >>,
      << "h", "a", "v", "e" >>,
      << "h", "a", "s" >>,
      << "h", "a", "d" >>,
      << "h", "a", "v", "i", "n", "g" >>,
      << "t", "h", "a", "n" >>,
      << "t", "h", "e", "n" >>,
      << "t", "h", "e", "r", "e" >>,
      << "h", "e", "r", "e" >>,
      << "s", "u", "c", "h" >>,
      << "v", "e", "r", "y" >>,
      << "c", "a", "n" >>,
      << "c", "o", "u", "l", "d" >>,
      << "s", "h", "o", "u", "l", "d" >>,
      << "w", "o", "u", "l", "d" >>,
      << "m", "a", "y" >>,
      << "m", "i", "g", "h", "t" >>,
      << "w", "i", "l", "l" >>,
      << "s", "h", "a", "l", "l" >> }

\* text.split(): the maximal runs of non-space characters
RECURSIVE Split(_)
Split(s) ==
    LET t == LStrip(s)
        spaces == { i \in DOMAIN t : IsSpace(t[i]) }
        n == IF spaces = {} THEN Len(t) + 1
             ELSE CHOOSE i \in spaces : \A j \in spaces : i <= j
    IN  IF t = << >> THEN << >>
        ELSE << SubSeq(t, 1, n - 1) >> \o Split(SubSeq(t, n, Len(t)))

\* _NUM_RX.sub(" <num> ", text)
RECURSIVE MaskNumbers(_)
MaskNumbers(s) ==
    IF s = << >> THEN << >>
    ELSE IF IsDigit(Head(s))
         THEN IF Len(s) > 1 /\ IsDigit(s[2]) THEN MaskNumbers(Tail(s))
              ELSE << " ", "<", "n", "u", "m", ">", " " >> \o MaskNumbers(Tail(s))
         ELSE << Head(s) >> \o MaskNumbers(Tail(s))

\* re.sub(r"[^\w\s]", " ", text)
strip_punct(s) == [i \in DOMAIN s |-> IF IsWordChar(s[i]) \/ IsSpace(s[i]) THEN s[i] ELSE " "]

\* the tokens normalize_text joins; unidecode leaves ASCII as it is, and
\* stemming and lemmatization are off
MaskIf(lowered, normalize_numbers) ==
    IF normalize_numbers THEN MaskNumbers(lowered) ELSE lowered

DropStopwordsIf(tokens, remove_stopwords) ==
    IF remove_stopwords THEN SelectSeq(tokens, LAMBDA w : w \notin STOPWORDS) ELSE tokens

NormTokens(text, remove_stopwords, normalize_numbers) ==
    DropStopwordsIf(Split(strip_punct(MaskIf(Lower(text), normalize_numbers))),
                    remove_stopwords)

normalize_text(text, remove_stopwords, normalize_numbers) ==
    Join(NormTokens(text, remove_stopwords, normalize_numbers), << " " >>)

\* word[:-n]
DropLast(word, n) == SubSeq(word, 1, Len(word) - n)

EndsWith(word, suffix) ==
    Len(word) >= Len(suffix) /\ SubSeq(word, Len(word) - Len(suffix) + 1, Len(word)) = suffix

\* _STEMMER.stem(t) of line 67, NLTK's PorterStemmer on a lowercase token: a
\* word of one or two letters is returned as it is, and step 1a of the
\* algorithm rewrites sses to ss, ies to i (to ie in a word of four letters)
\* and drops a final s that does not follow an s. The later steps rewrite
\* other suffixes and leave the words of NormalizeTexts as step 1a left them.
stem(t) ==
    IF Len(t) <= 2 THEN t
    ELSE IF EndsWith(t, << "s", "s", "e", "s" >>) THEN DropLast(t, 2)
    ELSE IF EndsWith(t, << "i", "e", "s" >>) THEN DropLast(t, IF Len(t) = 4 THEN 1 ELSE 2)
    ELSE IF EndsWith(t, << "s", "s" >>) THEN t
    ELSE IF EndsWith(t, << "s" >>) THEN DropLast(t, 1)
    ELSE t

\* the singular forms of the words of NormalizeTexts that WordNet lists as nouns
WordNetNouns == { << "w", "i", "l", "l" >>, << "c", "a", "n" >> }

\* _LEMMATIZER.lemmatize(t) of line 71, NLTK's WordNetLemmatizer with its
\* default part of speech: a plural in s is replaced by its singular when
\* WordNet lists the singular as a noun, and a word WordNet's rules do not
\* reduce to a listed noun is returned as it is
lemmatize(t) ==
    IF EndsWith(t, << "s" >>) /\ DropLast(t, 1) \in WordNetNouns THEN DropLast(t, 1) ELSE t

\* lines 66-67; nltk is false when the import of lines 4-11 failed
StemIf(tokens, apply_stemming, nltk) ==
    IF apply_stemming /\ nltk THEN [i \in DOMAIN tokens |-> stem(tokens[i])] ELSE tokens

\* lines 69-71
LemmatizeIf(tokens, apply_lemmatization, nltk) ==
    IF apply_lemmatization /\ nltk THEN [i \in DOMAIN tokens |-> lemmatize(tokens[i])]
    ELSE tokens

\* normalize_text with every option of its signature (use_synonyms is unused)
normalize_text_opts(text, remove_stopwords, apply_stemming, apply_lemmatization, normalize_numbers, nltk) ==
    Join(LemmatizeIf(StemIf(NormTokens(text, remove_stopwords, normalize_numbers),
                            apply_stemming, nltk),
                     apply_lemmatization, nltk),
         << " " >>)

\* normalize_text as every caller invokes it, with the options of config["text_cleaning"]
Normalized(text, config) ==
    normalize_text(text, config.remove_stopwords, config.normalize_numbers)

(***************************************************************************)
(* semantic_similarity.py; cos is the cosine of the two embeddings, in     *)
(* -ScoreScale..ScoreScale                                                 *)
(***************************************************************************)
\* plausible slip: the similarity is not bounded to [0, 1]
semantic_similarity_unbounded(text1, text2, config, cos) ==
    IF text1 = << >> \/ text2 = << >> THEN 0
    ELSE IF Normalized(text1, config) = << >> \/ Normalized(text2, config) = << >> THEN 0
    ELSE IF config.rescale_to_unit THEN RoundHalfEven(cos + ScoreScale, 2) ELSE cos

semantic_similarity(text1, text2, config, cos) ==
    IF text1 = << >> \/ text2 = << >> THEN 0
    ELSE IF Normalized(text1, config) = << >> \/ Normalized(text2, config) = << >> THEN 0
    ELSE LET sim == IF config.rescale_to_unit
                    THEN RoundHalfEven(cos + ScoreScale, 2)
                    ELSE cos
         IN  Max(0, Min(ScoreScale, sim))

(***************************************************************************)
(* semantic_similarity.py: the embedding model singleton                   *)
(***************************************************************************)
\* _model = None of line 5; an instance is the number of the construction
\* that made it and the model_name it was constructed with
NoModel == [id |-> 0, name |-> ""]

\* the model name of lines 15-18 when the configuration names none
DefaultModelName == "sentence-transformers/all-MiniLM-L6-v2"

\* plausible slip: the test under the lock is left out
SecondCheck_skipped(m) == TRUE

\* _model is None of line 13, under the lock
SecondCheck(m) == m = NoModel

\* SentenceTransformer(model_name) of line 19, the built-th construction
\* of the process having completed before it
Constructed(built, model_name) == [id |-> built + 1, name |-> model_name]

(***************************************************************************)
(* keyword_extractor.py; candidates is what the YAKE extractor returns     *)
(***************************************************************************)
\* SequenceMatcher.find_longest_match: the longest common block, the
\* earliest in a and then in b among the longest
Blocks(a, b) ==
    { blk \in (1..Len(a)) \X (1..Len(b)) \X (1..Min(Len(a), Len(b))) :
          /\ blk[1] + blk[3] - 1 <= Len(a)
          /\ blk[2] + blk[3] - 1 <= Len(b)
          /\ SubSeq(a, blk[1], blk[1] + blk[3] - 1) = SubSeq(b, blk[2], blk[2] + blk[3] - 1) }

LongestBlock(a, b) ==
    CHOOSE blk \in Blocks(a, b) :
        \A other \in Blocks(a, b) :
            \/ other[3] < blk[3]
            \/ other[3] = blk[3] /\ other[1] > blk[1]
            \/ other[3] = blk[3] /\ other[1] = blk[1] /\ other[2] >= blk[2]

\* the number of matching characters of SequenceMatcher.get_matching_blocks
RECURSIVE MatchingChars(_, _)
MatchingChars(a, b) ==
    IF Blocks(a, b) = {} THEN 0
    ELSE LET blk == LongestBlock(a, b)
         IN  blk[3]
             + MatchingChars(SubSeq(a, 1, blk[1] - 1), SubSeq(b, 1, blk[2] - 1))
             + MatchingChars(SubSeq(a, blk[1] + blk[3], Len(a)),
                             SubSeq(b, blk[2] + blk[3], Len(b)))

\* _fuzzy_match(a, b) >= threshold, the threshold in hundredths
FuzzyAtLeast(a, b, threshold) ==
    Len(a) + Len(b) > 0 /\ 200 * MatchingChars(a, b) >= threshold * (Len(a) + Len(b))

\* the filter of _keywords on the extractor's candidates
RECURSIVE FilterKeywords(_, _, _, _)
FilterKeywords(candidates, k, minlen, out) ==
    IF candidates = << >> THEN out
    ELSE LET c == Strip(Head(candidates))
             kept == IF Len(c) >= minlen /\ c \notin Range(out) THEN Append(out, c) ELSE out
         IN  IF Len(kept) >= k THEN kept
             ELSE FilterKeywords(Tail(candidates), k, minlen, kept)

keywords(text, k, minlen, candidates) ==
    IF text = << >> THEN << >> ELSE FilterKeywords(candidates, k, minlen, << >>)

\* the test of lines 76-85 on a normalized key
KeyHits(k_norm, s_tokens, config) ==
    /\ k_norm # << >>
    /\ \/ k_norm \in s_tokens
       \/ /\ config.use_fuzzy
          /\ \E t \in s_tokens : FuzzyAtLeast(k_norm, t, config.fuzzy_threshold)

\* plausible slip: the hits are divided by the number of student tokens
HitRatio_by_tokens(keys, s_tokens, config) ==
    IF s_tokens = {} THEN 0
    ELSE IF keys = << >> THEN 0
    ELSE Max(0, Min(ScoreScale,
                    RoundHalfEven(Cardinality({ i \in DOMAIN keys :
                                                    KeyHits(Normalized(keys[i], config),
                                                            s_tokens, config) })
                                      * ScoreScale,
                                  Cardinality(s_tokens))))

\* lines 58-90 on the model's keywords and the student's token set
HitRatio(keys, s_tokens, config) ==
    IF s_tokens = {} THEN 0
    ELSE IF keys = << >> THEN 0
    ELSE Max(0, Min(ScoreScale,
                    RoundHalfEven(Cardinality({ i \in DOMAIN keys :
                                                    KeyHits(Normalized(keys[i], config),
                                                            s_tokens, config) })
                                      * ScoreScale,
                                  Len(keys))))

keyword_match_score(model_answer, student_answer, config, candidates) ==
    IF model_answer = << >> \/ student_answer = << >> THEN 0
    ELSE HitRatio(keywords(model_answer, config.top_k, config.minlen, candidates),
                  Range(NormTokens(student_answer, config.remove_stopwords,
                                   config.normalize_numbers)),
                  config)

(***************************************************************************)
(* score_utils.py                                                          *)
(***************************************************************************)
\* _length_ratio as the pair << s_len, m_len >>; << 0, 1 >> is the ratio 0.0
RatioOf(s_len, m_len) == IF m_len = 0 \/ s_len = 0 THEN << 0, 1 >> ELSE << s_len, m_len >>

length_ratio(model_answer, student_answer, config) ==
    RatioOf(Len(NormTokens(student_answer, config.remove_stopwords, config.normalize_numbers)),
            Len(NormTokens(model_answer, config.remove_stopwords, config.normalize_numbers)))

\* (length_ratio / min_len_ratio) ** len_penalty_strength in tenths, rounded
\* down, for a ratio below min_len_ratio; the strength is the fraction
\* strength_num / strength_den
PenaltyPower(ratio, config) ==
    LET num == 100 * ratio[1]
        den == config.min_length_ratio * ratio[2]
        fits == { k \in 0..10 :
                      IntPow(k, config.strength_den) * IntPow(den, config.strength_num)
                          <= IntPow(10, config.strength_den) * IntPow(num, config.strength_num) }
    IN  CHOOSE k \in fits : \A j \in fits : j <= k

\* plausible slip: the factor is capped at 1.0 but has no lower bound
PenaltyFactor_no_floor(ratio, config) ==
    IF /\ config.min_length_ratio > 0
       /\ ratio[1] > 0
       /\ 100 * ratio[1] < config.min_length_ratio * ratio[2]
    THEN Min(10, PenaltyPower(ratio, config))
    ELSE 10

\* the factor of lines 203-207 in tenths; 10 when no penalty applies
PenaltyFactor(ratio, config) ==
    IF /\ config.min_length_ratio > 0
       /\ ratio[1] > 0
       /\ 100 * ratio[1] < config.min_length_ratio * ratio[2]
    THEN Max(3, Min(10, PenaltyPower(ratio, config)))
    ELSE 10

\* plausible slip: the marks are rounded to four decimals, not to quarters
TeacherRounding_decimals(num) == RoundHalfEven(num, 10000)

\* round(final_marks * 4) / 4 in units of 1/ScoreScale, final_marks being
\* num / 10^8
TeacherRounding(num) == RoundHalfEven(num, 25000000) * (ScoreScale \div 4)

\* combined after the length penalty and the clamp to [0, 1], in millionths
PenalizedCombined(sem, kw, ratio, config) ==
    LET combined == config.w_sem * sem + config.w_kw * kw
    IN  Max(0, Min(1000000, combined * PenaltyFactor(ratio, config)))

\* the result for a missing or blank student answer
ZeroScore == [marks |-> 0, sem |-> 0, kw |-> 0, combined |-> 0]

\* plausible slip: the bumped score is not capped at 0.5
Bump_uncapped(combined) == IF combined < 500000 THEN combined + 100000 ELSE combined

\* the bump of lines 213-216 for low-but-valid answers
Bump(combined) == IF combined < 500000 THEN Min(500000, combined + 100000) ELSE combined

\* plausible slip: the multiple-choice test reads the combined score
final_marks_mcq_by_combined(sem, combined, max_marks, config, mcq) ==
    IF mcq
    THEN IF combined >= 10000 * config.mcq_min_correct_score THEN max_marks * 1000000 ELSE 0
    ELSE IF combined < 10000 * config.min_partial_score THEN 0
         ELSE Bump(combined) * max_marks

\* plausible slip: the bump is applied before the floor is tested
final_marks_bump_first(sem, combined, max_marks, config, mcq) ==
    IF mcq
    THEN IF sem >= 100 * config.mcq_min_correct_score THEN max_marks * 1000000 ELSE 0
    ELSE IF Bump(combined) < 10000 * config.min_partial_score THEN 0
         ELSE Bump(combined) * max_marks

\* final_marks of lines 209-219 in units of 10^-8
final_marks(sem, combined, max_marks, config, mcq) ==
    IF mcq
    THEN IF sem >= 100 * config.mcq_min_correct_score THEN max_marks * 1000000 ELSE 0
    ELSE IF combined < 10000 * config.min_partial_score THEN 0
         ELSE Bump(combined) * max_marks

\* the tuple returned at line 225, with the combined score next to it
ScoreResult(sem, kw, combined, max_marks, config, mcq) ==
    [marks |-> TeacherRounding(final_marks(sem, combined, max_marks, config, mcq)),
     sem |-> sem, kw |-> kw, combined |-> combined]

\* lines 199-225 on the two scores and the length ratio
CombineAndMark(sem, kw, ratio, max_marks, config, mcq) ==
    ScoreResult(sem, kw, PenalizedCombined(sem, kw, ratio, config), max_marks, config, mcq)

compute_subpart_score(model_answer, student_answer, max_marks, config, mcq, cos, candidates) ==
    IF IsBlank(student_answer) THEN ZeroScore
    ELSE CombineAndMark(semantic_similarity(model_answer, student_answer, config, cos),
                        keyword_match_score(model_answer, student_answer, config, candidates),
                        length_ratio(model_answer, student_answer, config),
                        max_marks, config, mcq)

(***************************************************************************)
(* Model questions                                                         *)
(***************************************************************************)
\* a ModelSubpart; has_id is false when the JSON object has no "id" key
SP(id, answer, marks) ==
    [has_id |-> TRUE, id |-> id, model_answer |-> answer, marks |-> marks]

SPNoId(answer, marks) ==
    [has_id |-> FALSE, id |-> << >>, model_answer |-> answer, marks |-> marks]

\* attempt_required: "all", an integer, or absent
AttemptAll == [kind |-> "all", n |-> 0]

AttemptInt(n) == [kind |-> "int", n |-> n]

AttemptAbsent == [kind |-> "absent", n |-> 0]

\* a ModelQuestion; selection_policy "" and has_total FALSE stand for absent keys
MQ(qn, sps, ar, pol, has_total, total) ==
    [question_number |-> qn, subparts |-> sps, attempt_required |-> ar,
     selection_policy |-> pol, has_total |-> has_total, total_marks |-> total]

(***************************************************************************)
(* config.py                                                               *)
(***************************************************************************)
\* has_weights and has_thresholds are false for a configuration without the
\* "weights" or the "thresholds" key
CONFIG ==
    [has_weights |-> TRUE, has_thresholds |-> TRUE,
     w_sem |-> 8, w_kw |-> 2,
     min_partial_score |-> 20, mcq_min_correct_score |-> 60,
     min_length_ratio |-> 15, strength_num |-> 2, strength_den |-> 5,
     rescale_to_unit |-> TRUE,
     remove_stopwords |-> TRUE, normalize_numbers |-> FALSE,
     top_k |-> 15, minlen |-> 3, use_fuzzy |-> TRUE, fuzzy_threshold |-> 88,
     default_policy |-> "none", default_attempt_required |-> AttemptAll]

(***************************************************************************)
(* evaluation_engine.py                                                    *)
(***************************************************************************)
get_attempt_required(qobj) ==
    IF qobj.attempt_required.kind # "absent" THEN qobj.attempt_required
    ELSE CONFIG.default_attempt_required

get_selection_policy(qobj) ==
    IF qobj.selection_policy # "" THEN qobj.selection_policy
    ELSE CONFIG.default_policy

\* the _norm_id of evaluation_engine.py, which does not strip whitespace
engine_norm_id(s) == RemoveChar(RemoveChar(RemoveChar(Lower(s), "."), "("), ")")

select_subparts_to_score(mq, aligned_map) ==
    LET norm_ids == [i \in DOMAIN mq.subparts |-> engine_norm_id(mq.subparts[i].id)]
        attempt_required == get_attempt_required(mq)
        policy == get_selection_policy(mq)
        present == SelectSeq(norm_ids,
                             LAMBDA i : i \in DOMAIN aligned_map /\ ~IsBlank(aligned_map[i]))
    IN  IF attempt_required.kind = "all" \/ policy = "none" THEN norm_ids
        ELSE IF attempt_required.kind = "int" /\ policy = "first_n"
             THEN SubSeq(present, 1, Min(attempt_required.n, Len(present)))
             ELSE norm_ids

\* qno of lines 56-57
QNo(mq) == Strip(RemoveChar(RemoveChar(Strip(mq.question_number), "Q"), "q"))

RECURSIVE SumMarks(_)
SumMarks(sps) == IF sps = << >> THEN 0 ELSE Head(sps).marks + SumMarks(Tail(sps))

\* total_marks_q of lines 63-66, in hundredths
TotalMarks(mq) == IF mq.has_total THEN mq.total_marks ELSE SumMarks(mq.subparts)

\* sp_by_norm[sid] of line 86 as an index into subparts: a later subpart
\* replaces an earlier one with the same normalized id
SpByNorm(mq, sid) ==
    LET same == { i \in DOMAIN mq.subparts : engine_norm_id(mq.subparts[i].id) = sid }
    IN  CHOOSE i \in same : \A j \in same : j <= i

ZeroEntry == [semantic_score |-> 0, keyword_score |-> 0, score |-> 0, marks |-> 0]

NoteNoneSelected == "No subpart selected by policy (first_n)."

NoteNoAnswers == "No answers found for this question."

\* q_result with entries for the selected subparts only
InitialResult_selected_only(mq, cfg, aligned_map, selected_ids) ==
    [policy |-> [missing_subpart_policy |-> "zero",
                 extra_attempt_policy |-> get_selection_policy(mq),
                 weight_semantic |-> cfg.w_sem,
                 weight_keyword |-> cfg.w_kw,
                 attempt_required |-> get_attempt_required(mq)],
     subparts |-> [id \in { mq.subparts[i].id : i \in { j \in DOMAIN mq.subparts :
                                 \E k \in DOMAIN selected_ids :
                                     selected_ids[k] = engine_norm_id(mq.subparts[j].id) } }
                      |-> ZeroEntry],
     total_marks |-> TotalMarks(mq),
     final_score |-> 0,
     notes |-> << >>]

\* q_result as lines 71-100 leave it
InitialResult(mq, cfg, aligned_map, selected_ids) ==
    [policy |-> [missing_subpart_policy |-> "zero",
                 extra_attempt_policy |-> get_selection_policy(mq),
                 weight_semantic |-> cfg.w_sem,
                 weight_keyword |-> cfg.w_kw,
                 attempt_required |-> get_attempt_required(mq)],
     subparts |-> [id \in { mq.subparts[i].id : i \in DOMAIN mq.subparts } |-> ZeroEntry],
     total_marks |-> TotalMarks(mq),
     final_score |-> 0,
     notes |-> IF selected_ids # << >> THEN << >>
               ELSE IF DOMAIN aligned_map # {} THEN << NoteNoneSelected >>
               ELSE << NoteNoAnswers >>]

\* the report entry of lines 129-135
SubpartEntry(res, cfg) ==
    [semantic_score |-> res.sem,
     keyword_score |-> res.kw,
     score |-> RoundHalfEven(cfg.w_sem * res.sem + cfg.w_kw * res.kw, 10),
     marks |-> res.marks]

\* d[key] = value on a dict
Put(d, key, value) == [k \in DOMAIN d \cup { key } |-> IF k = key THEN value ELSE d[k]]

\* no subpart scored yet in this question
NoLast ==
    [sid |-> << >>, sp |-> 0, mcq |-> FALSE, choice |-> None, cos |-> 0, res |-> ZeroScore]

\* aligned.get(sid, "") or ""
StudentTextOf(aligned_map, sid) ==
    IF sid \in DOMAIN aligned_map THEN aligned_map[sid] ELSE << >>

\* f"({choice})"
Rendered(picked) == << "(", picked, ")" >>

\* the text the scorer receives: the student's, or the re-rendered choice of
\* line 114 for a multiple-choice subpart with a detected choice
TextForScorer(sp, student, picked) ==
    IF is_mcq(sp.model_answer) /\ picked # None THEN Rendered(picked) ELSE student

\* compute_subpart_score is called on a non-blank answer and reads a key the
\* configuration lacks at lines 177-183
ScorerRaises(sp, student, picked, cfg) ==
    /\ ~(is_mcq(sp.model_answer) /\ picked = None)
    /\ ~IsBlank(TextForScorer(sp, student, picked))
    /\ ~(cfg.has_weights /\ cfg.has_thresholds)

\* marks, sem, kw of lines 107-124 for the subpart sp
score_subpart(sp, student, picked, cfg, cos, candidates) ==
    IF is_mcq(sp.model_answer) /\ picked = None THEN ZeroScore
    ELSE compute_subpart_score(sp.model_answer, TextForScorer(sp, student, picked), sp.marks,
                               cfg, is_mcq(sp.model_answer), cos, candidates)

\* the loop variables after the iteration of lines 102-135 for sid
AfterScoring(c, sid, sp_index, sp, picked, cos, res, cfg) ==
    [c EXCEPT !.si = @ + 1,
              !.awarded_sum = @ + res.marks,
              !.q_result.subparts = Put(@, sp.id, SubpartEntry(res, cfg)),
              !.scored = Append(@, sp_index),
              !.last = [sid |-> sid, sp |-> sp_index, mcq |-> is_mcq(sp.model_answer),
                        choice |-> picked, cos |-> cos, res |-> res]]

\* the loop variables at line 102
AtLoopStart(mq, cfg, aligned_map, selected_ids) ==
    [aligned |-> aligned_map, selected_ids |-> selected_ids, si |-> 1, awarded_sum |-> 0,
     q_result |-> InitialResult(mq, cfg, aligned_map, selected_ids),
     scored |-> << >>, last |-> NoLast]

AlignedAndSelected(mq, cfg, aligned_map) ==
    AtLoopStart(mq, cfg, aligned_map, select_subparts_to_score(mq, aligned_map))

EmptyReport == [total_awarded |-> 0, total_max |-> 0, percentage |-> 0, by_question |-> EmptyMap]

\* the percentage taken on the total before it is rounded
FinalReport_unrounded_total(rep) ==
    [rep EXCEPT !.total_max = RoundHalfEven(rep.total_max, 10) * 10,
                !.percentage = IF rep.total_max # 0
                               THEN RoundHalfEven(rep.total_awarded * 100, rep.total_max)
                               ELSE 0]

\* lines 142-147: the totals rounded and the percentage, in hundredths of a percent
FinalReport(rep) ==
    LET total_max == RoundHalfEven(rep.total_max, 10) * 10
    IN  [rep EXCEPT !.total_max = total_max,
                    !.percentage = IF total_max # 0
                                   THEN RoundHalfEven(rep.total_awarded * 100, total_max)
                                   ELSE 0]

\* the sequences of n distinct elements of S
DistinctSeqs(S, n) ==
    { q \in [1..n -> S] : \A i, j \in 1..n : i # j => q[i] # q[j] }

(***************************************************************************)
(* app.py: the uploads collection                                          *)
(***************************************************************************)
\* marks_obtained of a document that has none
NoMarks == -1

\* the record of upload_answer, lines 163-174
Submission(roll_number, exam_name) ==
    [type |-> "answer_sheet", roll_number |-> roll_number, exam_name |-> exam_name,
     status |-> "pending", marks_obtained |-> NoMarks, feedback |-> ""]

\* the record of upload_key, lines 117-123; it has no roll_number, exam_name
\* or status, which no filter value equals
AnswerKey ==
    [type |-> "answer_key", roll_number |-> "", exam_name |-> "",
     status |-> "", marks_obtained |-> NoMarks, feedback |-> ""]

\* the $set of lines 230-236 and 265-271
Evaluated(marks, feedback) ==
    [status |-> "evaluated", marks_obtained |-> marks, feedback |-> feedback]

\* the document has the value of every field the filter names
Matches(doc, filter) == \A field \in DOMAIN filter : doc[field] = filter[field]

\* the position of the first document of the collection, in insertion
\* order, that the filter matches; 0 when none does
find_one(docs, filter) ==
    IF \E i \in DOMAIN docs : Matches(docs[i], filter)
    THEN CHOOSE i \in DOMAIN docs :
             Matches(docs[i], filter) /\ \A j \in 1..(i - 1) : ~Matches(docs[j], filter)
    ELSE 0

\* the document with the fields of set assigned
SetFields(doc, set) ==
    [field \in DOMAIN doc |-> IF field \in DOMAIN set THEN set[field] ELSE doc[field]]

\* the collection after update_one with $set: the first document the filter
\* matches is changed, none when no document matches
update_one(docs, filter, set) ==
    IF find_one(docs, filter) = 0 THEN docs
    ELSE [docs EXCEPT ![find_one(docs, filter)] = SetFields(@, set)]

\* the feedback of line 226
MockFeedback == "Good effort! Improve handwriting and conceptual explanations."

\* no request handled yet
NoRequest == [op |-> "", roll_number |-> "", found |-> 0, code |-> 0]

(***************************************************************************)
(* Idle values of the variables a specification does not use              *)
(***************************************************************************)
UploadsIdle == uploads = << >> /\ up_prev = << >> /\ up_last = NoRequest

ChoiceIdle == ch_pc = "idle" /\ student_text = << >> /\ choice = None

NoArgs ==
    [model_answer |-> << >>, student_answer |-> << >>, max_marks |-> 0,
     config |-> CONFIG, is_mcq |-> FALSE]

NoExt == [cos |-> 0, candidates |-> << >>]

ScoreIdle ==
    /\ sc_pc = "idle"
    /\ sc_args = NoArgs
    /\ sc_ext = NoExt
    /\ sc_result = ZeroScore

AlignIdle ==
    /\ al_pc = "idle"
    /\ model_question = MQ(<< >>, << >>, AttemptAbsent, "", FALSE, 0)
    /\ student_root = Null
    /\ aligned = EmptyMap

NoQuestion ==
    [aligned |-> EmptyMap, selected_ids |-> << >>, si |-> 0, awarded_sum |-> 0,
     q_result |-> InitialResult(MQ(<< >>, << >>, AttemptAbsent, "", FALSE, 0), CONFIG,
                                EmptyMap, << >>),
     scored |-> << >>, last |-> NoLast]

NoNormArgs ==
    [text |-> << >>, remove_stopwords |-> TRUE, apply_stemming |-> FALSE,
     apply_lemmatization |-> FALSE, normalize_numbers |-> FALSE, nltk |-> FALSE]

NormIdle ==
    /\ nm_pc = "idle"
    /\ nm_args = NoNormArgs
    /\ nm_once = << >>
    /\ nm_twice = << >>

Threads == 1..MaxThreads

\* a thread that has not yet received anything from _get_model
NotReturned == [id |-> -1, name |-> ""]

GetModelIdle ==
    /\ gm_pc = [t \in Threads |-> "off"]
    /\ gm_lock = 0
    /\ gm_model = NoModel
    /\ gm_local = [t \in Threads |-> NoModel]
    /\ gm_built = 0
    /\ gm_name = [t \in Threads |-> ""]
    /\ gm_ret = [t \in Threads |-> NotReturned]
    /\ gm_calls = [t \in Threads |-> 0]

EvalIdle ==
    /\ ev_pc = "idle"
    /\ model_doc = [shape |-> "keyed", questions |-> << >>]
    /\ student_doc = Null
    /\ ev_config = CONFIG
    /\ report = EmptyReport
    /\ qi = 0
    /\ cur = NoQuestion
    /\ embed = EmptyMap

(***************************************************************************)
(* Driver of pick_student_choice                                           *)
(***************************************************************************)
ChoiceAlphabet == { "A", "b", "(", ")", " ", "x" }

ExampleChoose == << "I", " ", "c", "h", "o", "o", "s", "e", " ", "(", "B", ")" >>

ExampleMaybe == << "m", "a", "y", "b", "e", " ", "A", " ", "o", "r", " ",
                   "m", "a", "y", "b", "e", " ", "B" >>

ExampleNoIdea == << "n", "o", " ", "i", "d", "e", "a" >>

ChoiceTexts ==
    TextsUpTo(ChoiceAlphabet, MaxTextLen) \cup { ExampleChoose, ExampleMaybe, ExampleNoIdea }

ChoiceInit ==
    /\ ch_pc = "call"
    /\ student_text \in ChoiceTexts
    /\ choice = None
    /\ AlignIdle
    /\ ScoreIdle
    /\ EvalIdle
    /\ NormIdle
    /\ GetModelIdle
    /\ UploadsIdle

PickChoice ==
    /\ ch_pc = "call"
    /\ choice' = pick_student_choice(student_text)
    /\ ch_pc' = "done"
    /\ UNCHANGED student_text
    /\ UNCHANGED << alignVars, scoreVars, evalVars, normVars, modelVars, uploadVars >>

ChoiceNext == PickChoice

SpecChoice == ChoiceInit /\ [][ChoiceNext]_vars

(***************************************************************************)
(* Driver of align_student_to_model                                        *)
(***************************************************************************)
AlignIds == { << "a" >>, << "(", "B", ")" >>, << >> }

AlignQuestions ==
    { MQ(<< "Q", "2" >>, sps, AttemptAbsent, "", FALSE, 0) :
          sps \in UNION { [1..n -> { SP(id, << "m" >>, 4) : id \in AlignIds }] :
                              n \in 0..MaxSubparts } }

SectionKeys == { << "(", "a", ")" >>, << "A", "." >>, << "b" >>, << >> }

EntryValues ==
    { Str(<< "f" >>), Str(<< " ", "f", " " >>), Str(<< " " >>), Null,
      Lst(<< Str(<< "f" >>), Str(<< "g" >>) >>),
      Dct(<< << "b" >> >>, << Str(<< "g" >>) >>) }

MappingSections ==
    UNION { { Dct(ks, vs) : ks \in DistinctSeqs(SectionKeys, n), vs \in [1..n -> EntryValues] } :
                n \in 0..MaxKeys }

BlobSections ==
    { Str(<< "f", " ", "g" >>), Str(<< " ", "f" >>), Str(<< >>), Num,
      Lst(<< >>), Lst(<< Str(<< "f" >>), Lst(<< Str(<< "g" >>), Null >>) >>),
      Lst(<< Dct(<< << "a" >> >>, << Str(<< "f" >>) >>), Str(<< "g" >>) >>) }

SectionF == Dct(<< << "a" >> >>, << Str(<< "f" >>) >>)

SectionG == Dct(<< << "a" >> >>, << Str(<< "g" >>) >>)

\* documents with two top-level keys: a key matching by its digits only next
\* to an exactly matching one, and matching keys one level down
TwoKeyRoots ==
    { Dct(<< << "x", "2" >>, << "Q", "2" >> >>, << SectionG, SectionF >>),
      Dct(<< << "Q", "2" >>, << "x", "2" >> >>, << SectionF, SectionG >>),
      Dct(<< << "1", "2" >>, << "q", "u", "e", "s", "-", "2" >> >>, << SectionG, SectionF >>),
      Dct(<< << "S" >>, << "Q", "2" >> >>,
          << Dct(<< << "Q", "2" >> >>, << SectionG >>), SectionF >>),
      Dct(<< << "S" >>, << "x", "2" >> >>,
          << Dct(<< << "Q", "2" >> >>, << SectionG >>), SectionF >>),
      Dct(<< << "S" >>, << "T" >> >>,
          << Dct(<< << "x" >> >>, << SectionG >>), Dct(<< << "2", "." >> >>, << SectionF >>) >>),
      Dct(<< << "S" >>, << "T" >> >>,
          << Dct(<< << "x" >> >>, << SectionG >>), Str(<< "f" >>) >>) }

AlignRoots ==
    TwoKeyRoots \cup
    { Dct(<< << "Q", "2" >> >>, << sec >>) : sec \in MappingSections \cup BlobSections } \cup
    { Dct(<< << "q", "u", "e", "s", "t", "i", "o", "n", " ", "2" >> >>, << sec >>) :
          sec \in BlobSections } \cup
    { Dct(<< << "S" >> >>, << Dct(<< << "2", "." >> >>, << sec >>) >>) : sec \in BlobSections } \cup
    { Dct(<< << "Q", "3" >> >>, << sec >>) : sec \in BlobSections } \cup
    { Null, Str(<< "f" >>), Lst(<< Str(<< "f" >>) >>), Dct(<< >>, << >>) }

AlignInit ==
    /\ al_pc = "call"
    /\ model_question \in AlignQuestions
    /\ student_root \in AlignRoots
    /\ aligned = EmptyMap
    /\ ChoiceIdle
    /\ ScoreIdle
    /\ EvalIdle
    /\ NormIdle
    /\ GetModelIdle
    /\ UploadsIdle

Align ==
    /\ al_pc = "call"
    /\ ~AlignRaises(model_question)
    /\ aligned' = align_student_to_model(model_question, student_root)
    /\ al_pc' = "done"
    /\ UNCHANGED << model_question, student_root >>
    /\ UNCHANGED << choiceVars, scoreVars, evalVars, normVars, modelVars, uploadVars >>

AlignNext == Align

SpecAlign == AlignInit /\ [][AlignNext]_vars

(***************************************************************************)
(* Driver of compute_subpart_score                                         *)
(***************************************************************************)
LongAnswer == << "k", "k", "k", " ", "a", "a", " ", "b", "b", " ", "c", "c", " ",
                 "d", "d", " ", "e", "e", " ", "g", "g", " ", "z", "z", "z" >>

ScoreModelAnswers ==
    { LongAnswer, << "k", "k", "k", " ", "z", "z", "z" >>, << "(", "B", ")" >>,
      << "t", "h", "e" >>, << >> }

ScoreStudentAnswers ==
    { << >>, << " " >>, << "k", "k", "k" >>, << "k", "k", "z", " ", "z", "z", "z" >>,
      << "(", "B", ")" >>, << "(", "A", ")" >>, << "t", "h", "e", " ", "a" >> }

\* max_marks in hundredths
ScoreMaxMarks == { 0, 10, 90, 100, 250, 1000 }

ScoreConfigs ==
    { CONFIG,
      [CONFIG EXCEPT !.w_sem = 10, !.w_kw = 10],
      [CONFIG EXCEPT !.min_partial_score = 45, !.rescale_to_unit = FALSE],
      [CONFIG EXCEPT !.min_length_ratio = 80, !.strength_num = 1, !.strength_den = 1,
                     !.remove_stopwords = FALSE],
      [CONFIG EXCEPT !.min_length_ratio = 0, !.use_fuzzy = FALSE, !.mcq_min_correct_score = 95] }

\* cosines the embedding model may return
CosValues == { -10000, -3000, 0, 2001, 5000, 10000 }

\* the same text embeds to the same vector
CosOutcomes(text1, text2, config) ==
    IF Normalized(text1, config) = Normalized(text2, config) THEN { ScoreScale } ELSE CosValues

\* candidate lists the keyword extractor may return
KeywordCandidates ==
    { << >>, << << "k", "k", "k" >> >>, << << "k", "k", "k" >>, << "z", "z", "z" >> >>,
      << << "k", "k" >>, << "Z", "z", "z", " " >>, << "z", "z", "z" >> >> }

ScoreInit ==
    /\ sc_pc = "call"
    /\ sc_args \in [model_answer : ScoreModelAnswers, student_answer : ScoreStudentAnswers,
                    max_marks : ScoreMaxMarks, config : ScoreConfigs, is_mcq : BOOLEAN]
    /\ sc_ext = NoExt
    /\ sc_result = ZeroScore
    /\ ChoiceIdle
    /\ AlignIdle
    /\ EvalIdle
    /\ NormIdle
    /\ GetModelIdle
    /\ UploadsIdle

Score ==
    /\ sc_pc = "call"
    /\ \E cos \in CosOutcomes(sc_args.model_answer, sc_args.student_answer, sc_args.config),
          candidates \in KeywordCandidates :
           /\ sc_ext' = [cos |-> cos, candidates |-> candidates]
           /\ sc_result' = compute_subpart_score(sc_args.model_answer, sc_args.student_answer,
                                                 sc_args.max_marks, sc_args.config,
                                                 sc_args.is_mcq, cos, candidates)
    /\ sc_pc' = "done"
    /\ UNCHANGED sc_args
    /\ UNCHANGED << choiceVars, alignVars, evalVars, normVars, modelVars, uploadVars >>

ScoreNext == Score

SpecScore == ScoreInit /\ [][ScoreNext]_vars

(***************************************************************************)
(* Driver of normalize_text                                                *)
(***************************************************************************)
NormalizeTexts ==
    { << >>,
      << " " >>,
      << "W", "i", "l", "l", "s" >>,
      << "w", "i", "l", "l", "s", "." >>,
      << "w", "i", "l", "l" >>,
      << "5", " ", "c", "a", "n", "s" >>,
      << "k", "-", "9", " ", "k", "k", "s" >>,
      << "a", "1", "b" >>,
      << "k", "k", "k", " ", " ", "z", "z", "z" >>,
      << "(", "B", ")" >>,
      << "c", "a", "n", " ", "k", "k" >>,
      << "1", "2", " ", "w", "i", "l", "l" >> }

NormalizeInit ==
    /\ nm_pc = "call"
    /\ nm_args \in [text : NormalizeTexts, remove_stopwords : BOOLEAN,
                    apply_stemming : BOOLEAN, apply_lemmatization : BOOLEAN,
                    normalize_numbers : BOOLEAN, nltk : BOOLEAN]
    /\ nm_once = << >>
    /\ nm_twice = << >>
    /\ ChoiceIdle
    /\ AlignIdle
    /\ ScoreIdle
    /\ EvalIdle
    /\ GetModelIdle
    /\ UploadsIdle

\* normalize_text under the options of nm_args
NormalizeWith(text) ==
    normalize_text_opts(text, nm_args.remove_stopwords, nm_args.apply_stemming,
                        nm_args.apply_lemmatization, nm_args.normalize_numbers, nm_args.nltk)

\* normalize_text(x)
Normalize ==
    /\ nm_pc = "call"
    /\ nm_once' = NormalizeWith(nm_args.text)
    /\ nm_pc' = "once"
    /\ UNCHANGED << nm_args, nm_twice >>
    /\ UNCHANGED << choiceVars, alignVars, scoreVars, evalVars, modelVars, uploadVars >>

\* normalize_text(normalize_text(x)) under the same options
NormalizeAgain ==
    /\ nm_pc = "once"
    /\ nm_twice' = NormalizeWith(nm_once)
    /\ nm_pc' = "twice"
    /\ UNCHANGED << nm_args, nm_once >>
    /\ UNCHANGED << choiceVars, alignVars, scoreVars, evalVars, modelVars, uploadVars >>

NormalizeNext == Normalize \/ NormalizeAgain

SpecNormalize == NormalizeInit /\ [][NormalizeNext]_vars

(***************************************************************************)
(* Driver of _get_model: threads of one process                            *)
(***************************************************************************)
\* the model_name of the configuration a call passes
ModelNames == { DefaultModelName, "other-model" }

GetModelInit ==
    /\ gm_pc = [t \in Threads |-> "idle"]
    /\ gm_lock = 0
    /\ gm_model = NoModel
    /\ gm_local = [t \in Threads |-> NoModel]
    /\ gm_built = 0
    /\ gm_name = [t \in Threads |-> ""]
    /\ gm_ret = [t \in Threads |-> NotReturned]
    /\ gm_calls = [t \in Threads |-> 0]
    /\ ChoiceIdle
    /\ AlignIdle
    /\ ScoreIdle
    /\ EvalIdle
    /\ NormIdle
    /\ UploadsIdle

\* thread t calls _get_model(config), config naming model_name
Call(t) ==
    /\ gm_pc[t] = "idle"
    /\ gm_calls[t] < MaxCalls
    /\ \E model_name \in ModelNames : gm_name' = [gm_name EXCEPT ![t] = model_name]
    /\ gm_calls' = [gm_calls EXCEPT ![t] = @ + 1]
    /\ gm_pc' = [gm_pc EXCEPT ![t] = "check"]
    /\ UNCHANGED << gm_lock, gm_model, gm_local, gm_built, gm_ret >>
    /\ UNCHANGED << choiceVars, alignVars, scoreVars, evalVars, normVars, uploadVars >>

\* line 11, outside the lock
FirstCheck(t) ==
    /\ gm_pc[t] = "check"
    /\ gm_pc' = [gm_pc EXCEPT ![t] = IF gm_model = NoModel THEN "lock" ELSE "return"]
    /\ UNCHANGED << gm_lock, gm_model, gm_local, gm_built, gm_name, gm_ret, gm_calls >>
    /\ UNCHANGED << choiceVars, alignVars, scoreVars, evalVars, normVars, uploadVars >>

\* line 12: _model_lock is acquired when it is free
Acquire(t) ==
    /\ gm_pc[t] = "lock"
    /\ gm_lock = 0
    /\ gm_lock' = t
    /\ gm_pc' = [gm_pc EXCEPT ![t] = "recheck"]
    /\ UNCHANGED << gm_model, gm_local, gm_built, gm_name, gm_ret, gm_calls >>
    /\ UNCHANGED << choiceVars, alignVars, scoreVars, evalVars, normVars, uploadVars >>

\* line 13
Recheck(t) ==
    /\ gm_pc[t] = "recheck"
    /\ gm_pc' = [gm_pc EXCEPT ![t] = IF SecondCheck(gm_model) THEN "build" ELSE "unlock"]
    /\ UNCHANGED << gm_lock, gm_model, gm_local, gm_built, gm_name, gm_ret, gm_calls >>
    /\ UNCHANGED << choiceVars, alignVars, scoreVars, evalVars, normVars, uploadVars >>

\* lines 14-19: the constructor returns an instance, not yet stored
Build(t) ==
    /\ gm_pc[t] = "build"
    /\ gm_local' = [gm_local EXCEPT ![t] = Constructed(gm_built, gm_name[t])]
    /\ gm_built' = gm_built + 1
    /\ gm_pc' = [gm_pc EXCEPT ![t] = "assign"]
    /\ UNCHANGED << gm_lock, gm_model, gm_name, gm_ret, gm_calls >>
    /\ UNCHANGED << choiceVars, alignVars, scoreVars, evalVars, normVars, uploadVars >>

\* line 19: the constructor raises; the with statement releases the lock
\* and the call ends without a result
BuildFails(t) ==
    /\ gm_pc[t] = "build"
    /\ gm_lock' = 0
    /\ gm_pc' = [gm_pc EXCEPT ![t] = "idle"]
    /\ UNCHANGED << gm_model, gm_local, gm_built, gm_name, gm_ret, gm_calls >>
    /\ UNCHANGED << choiceVars, alignVars, scoreVars, evalVars, normVars, uploadVars >>

\* line 19: the store to the global _model
Assign(t) ==
    /\ gm_pc[t] = "assign"
    /\ gm_model' = gm_local[t]
    /\ gm_pc' = [gm_pc EXCEPT ![t] = "unlock"]
    /\ UNCHANGED << gm_lock, gm_local, gm_built, gm_name, gm_ret, gm_calls >>
    /\ UNCHANGED << choiceVars, alignVars, scoreVars, evalVars, normVars, uploadVars >>

\* the end of the with statement of line 12
Release(t) ==
    /\ gm_pc[t] = "unlock"
    /\ gm_lock' = 0
    /\ gm_pc' = [gm_pc EXCEPT ![t] = "return"]
    /\ UNCHANGED << gm_model, gm_local, gm_built, gm_name, gm_ret, gm_calls >>
    /\ UNCHANGED << choiceVars, alignVars, scoreVars, evalVars, normVars, uploadVars >>

\* line 20
ReturnModel(t) ==
    /\ gm_pc[t] = "return"
    /\ gm_ret' = [gm_ret EXCEPT ![t] = gm_model]
    /\ gm_pc' = [gm_pc EXCEPT ![t] = "idle"]
    /\ UNCHANGED << gm_lock, gm_model, gm_local, gm_built, gm_name, gm_calls >>
    /\ UNCHANGED << choiceVars, alignVars, scoreVars, evalVars, normVars, uploadVars >>

GetModelNext ==
    \E t \in Threads :
        \/ Call(t)
        \/ FirstCheck(t)
        \/ Acquire(t)
        \/ Recheck(t)
        \/ Build(t)
        \/ BuildFails(t)
        \/ Assign(t)
        \/ Release(t)
        \/ ReturnModel(t)

SpecGetModel == GetModelInit /\ [][GetModelNext]_vars

(***************************************************************************)
(* Driver of the uploads collection: requests handled one after another    *)
(***************************************************************************)
RollNumbers == { "101", "102" }

ExamNames == { "midterm", "final" }

\* 60 + hash(roll_number) % 40 of line 225; str hashes differ from process
\* to process
MockMarks == { 60, 99 }

\* marks_obtained of a manual evaluation
ManualMarks == { 75 }

UploadsInit ==
    /\ uploads = << >>
    /\ up_prev = << >>
    /\ up_last = NoRequest
    /\ ChoiceIdle
    /\ AlignIdle
    /\ ScoreIdle
    /\ EvalIdle
    /\ NormIdle
    /\ GetModelIdle

\* upload_key, lines 104-126
upload_key ==
    /\ Len(uploads) < MaxUploads
    /\ uploads' = Append(uploads, AnswerKey)
    /\ up_prev' = uploads
    /\ up_last' = [op |-> "upload_key", roll_number |-> "", found |-> 0, code |-> 201]
    /\ UNCHANGED << choiceVars, alignVars, scoreVars, evalVars, normVars, modelVars >>

\* upload_answer, lines 130-180, with its required fields filled
upload_answer(roll_number, exam_name) ==
    /\ Len(uploads) < MaxUploads
    /\ uploads' = Append(uploads, Submission(roll_number, exam_name))
    /\ up_prev' = uploads
    /\ up_last' = [op |-> "upload_answer", roll_number |-> roll_number, found |-> 0,
                   code |-> 201]
    /\ UNCHANGED << choiceVars, alignVars, scoreVars, evalVars, normVars, modelVars >>

\* start_evaluation, lines 218-243: find_one on roll_number and status,
\* update_one on roll_number alone
start_evaluation(roll_number) ==
    /\ \E marks \in MockMarks :
           LET submission == find_one(uploads, [roll_number |-> roll_number,
                                                status |-> "pending"])
           IN  IF submission = 0
               THEN /\ uploads' = uploads
                    /\ up_last' = [op |-> "start_evaluation", roll_number |-> roll_number,
                                   found |-> 0, code |-> 404]
               ELSE /\ uploads' = update_one(uploads, [roll_number |-> roll_number],
                                              Evaluated(marks, MockFeedback))
                    /\ up_last' = [op |-> "start_evaluation", roll_number |-> roll_number,
                                   found |-> submission, code |-> 200]
    /\ up_prev' = uploads
    /\ UNCHANGED << choiceVars, alignVars, scoreVars, evalVars, normVars, modelVars >>

\* evaluate_submission, lines 248-277, with its required fields present
evaluate_submission(roll_number, exam_name) ==
    /\ \E marks \in ManualMarks :
           LET filter == [roll_number |-> roll_number, exam_name |-> exam_name]
           IN  /\ uploads' = update_one(uploads, filter, Evaluated(marks, ""))
               /\ up_last' = [op |-> "evaluate_submission", roll_number |-> roll_number,
                              found |-> 0,
                              code |-> IF find_one(uploads, filter) = 0 THEN 404 ELSE 200]
    /\ up_prev' = uploads
    /\ UNCHANGED << choiceVars, alignVars, scoreVars, evalVars, normVars, modelVars >>

UploadsNext ==
    \/ upload_key
    \/ \E roll_number \in RollNumbers, exam_name \in ExamNames :
           upload_answer(roll_number, exam_name)
    \/ \E roll_number \in RollNumbers : start_evaluation(roll_number)
    \/ \E roll_number \in RollNumbers, exam_name \in ExamNames :
           evaluate_submission(roll_number, exam_name)

SpecUploads == UploadsInit /\ [][UploadsNext]_vars

(***************************************************************************)
(* Driver of evaluate_student_answers                                      *)
(***************************************************************************)
AnswerKKK == << "k", "k", "k", " ", "z", "z", "z" >>

OptionB == << "(", "B", ")" >>

OptionA == << "(", "A", ")" >>

\* marks in hundredths
EvalSubparts ==
    { SP(<< "a" >>, AnswerKKK, 100),
      SP(<< "A", "." >>, OptionB, 250),
      SP(<< "b" >>, OptionB, 90),
      SPNoId(AnswerKKK, 100) }

EvalSubpartLists == UNION { [1..n -> EvalSubparts] : n \in 1..MaxSubparts }

\* attempt_required, selection_policy, "total_marks" present, total_marks
EvalFrames ==
    { << AttemptAbsent, "", FALSE, 0 >>,
      << AttemptInt(1), "first_n", TRUE, 100 >>,
      << AttemptInt(2), "first_n", FALSE, 0 >>,
      << AttemptInt(1), "", TRUE, 500 >>,
      << AttemptAbsent, "", TRUE, 4 >> }

EvalQuestions(qn) ==
    { MQ(qn, sps, f[1], f[2], f[3], f[4]) : sps \in EvalSubpartLists, f \in EvalFrames }

EvalTexts ==
    { Str(<< "k", "k", "k" >>), Str(OptionB), Str(<< "C" >>),
      Str(<< "a", " ", "o", "r", " ", "B" >>), Str(<< " " >>) }

EvalSections ==
    { Dct(<< >>, << >>), Str(<< "k", "k", "k" >>) } \cup
    { Dct(<< << "a" >> >>, << t >>) : t \in EvalTexts } \cup
    { Dct(<< << "(", "b", ")" >> >>, << t >>) : t \in EvalTexts } \cup
    { Dct(<< << "a" >>, << "(", "b", ")" >> >>, << t, u >>) : t, u \in EvalTexts }

EvalStudents ==
    { Dct(<< << "Q", "1" >> >>, << sec >>) : sec \in EvalSections } \cup
    { Dct(<< << "Q", "9" >> >>, << Dct(<< << "a" >> >>, << Str(OptionB) >>) >>),
      Dct(<< << "Q", "1" >> >>, << Dct(<< << "a" >> >>, << Str(OptionA) >>) >>),
      Null, Str(<< "k", "k", "k" >>), Lst(<< Str(OptionB), Lst(<< Null >>) >>) }

SecondQuestion(qn) == MQ(qn, << SP(<< "a" >>, OptionB, 100) >>, AttemptAbsent, "", FALSE, 0)

EvalModels ==
    { [shape |-> "keyed", questions |-> << q >>] : q \in EvalQuestions(<< "Q", "1" >>) } \cup
    { [shape |-> "keyed", questions |-> << SecondQuestion(<< "1" >>), SecondQuestion(qn) >>] :
          qn \in { << "q", "1", " " >>, << "Q", "9" >> } } \cup
    { [shape |-> "keyed", questions |-> << >>],
      [shape |-> "keyed",
       questions |-> << MQ(<< "Q", "1" >>, << SP(<< "a" >>, OptionA, 100) >>,
                           AttemptAbsent, "", FALSE, 0) >>],
      [shape |-> "bare", questions |-> << SecondQuestion(<< "1" >>) >>] }

EvalConfigs ==
    { CONFIG,
      [CONFIG EXCEPT !.mcq_min_correct_score = 40, !.min_partial_score = 30,
                     !.w_sem = 5, !.w_kw = 5],
      [CONFIG EXCEPT !.has_weights = FALSE],
      [CONFIG EXCEPT !.has_thresholds = FALSE],
      [CONFIG EXCEPT !.default_policy = "first_n", !.default_attempt_required = AttemptInt(1)] }

\* cosines the embedding model may return during an evaluation
EvalCos == { 0, 5000 }

\* the two texts semantic_similarity hands to the embedding model
EmbedKey(text1, text2, cfg) == << Normalized(text1, cfg), Normalized(text2, cfg) >>

\* the scorer is called and reaches the embedding model
Encodes(sp, picked, key) ==
    /\ ~(is_mcq(sp.model_answer) /\ picked = None)
    /\ key[1] # << >>
    /\ key[2] # << >>

\* the embedding model is a function: it answers a pair of texts it has seen
\* as it did before, and equal texts with cosine 1
EvalCosOutcomes(seen, key, encodes) ==
    IF ~encodes THEN { 0 }
    ELSE IF key \in DOMAIN seen THEN { seen[key] }
    ELSE IF key[1] = key[2] THEN { ScoreScale }
    ELSE EvalCos

Remember(seen, key, encodes, cos) == IF encodes THEN Put(seen, key, cos) ELSE seen

EvalCandidates == { << << "k", "k", "k" >>, << "z", "z", "z" >> >> }

EvalInit ==
    /\ ev_pc = "load"
    /\ model_doc \in EvalModels
    /\ student_doc \in EvalStudents
    /\ ev_config \in EvalConfigs
    /\ report = EmptyReport
    /\ qi = 0
    /\ cur = NoQuestion
    /\ embed = EmptyMap
    /\ ChoiceIdle
    /\ AlignIdle
    /\ ScoreIdle
    /\ NormIdle
    /\ GetModelIdle
    /\ UploadsIdle

\* line 46 on a mapping
Load ==
    /\ ev_pc = "load"
    /\ model_doc.shape = "keyed"
    /\ ev_pc' = "question"
    /\ qi' = 1
    /\ UNCHANGED << model_doc, student_doc, ev_config, report, cur, embed >>
    /\ UNCHANGED << choiceVars, alignVars, scoreVars, normVars, modelVars, uploadVars >>

\* line 46 on a sequence: it has no get
LoadRaises ==
    /\ ev_pc = "load"
    /\ model_doc.shape = "bare"
    /\ ev_pc' = "raised"
    /\ UNCHANGED << model_doc, student_doc, ev_config, report, qi, cur, embed >>
    /\ UNCHANGED << choiceVars, alignVars, scoreVars, normVars, modelVars, uploadVars >>

\* lines 55-100
BeginQuestion ==
    /\ ev_pc = "question"
    /\ qi <= Len(model_doc.questions)
    /\ ~AlignRaises(model_doc.questions[qi])
    /\ ev_config.has_weights
    /\ cur' = AlignedAndSelected(model_doc.questions[qi], ev_config,
                                 align_student_to_model(model_doc.questions[qi], student_doc))
    /\ ev_pc' = "subpart"
    /\ UNCHANGED << model_doc, student_doc, ev_config, report, qi, embed >>
    /\ UNCHANGED << choiceVars, alignVars, scoreVars, normVars, modelVars, uploadVars >>

\* sp["id"] on a subpart without "id"
QuestionRaises ==
    /\ ev_pc = "question"
    /\ qi <= Len(model_doc.questions)
    /\ AlignRaises(model_doc.questions[qi])
    /\ ev_pc' = "raised"
    /\ UNCHANGED << model_doc, student_doc, ev_config, report, qi, cur, embed >>
    /\ UNCHANGED << choiceVars, alignVars, scoreVars, normVars, modelVars, uploadVars >>

\* config["weights"] at lines 75-76 on a configuration without "weights"
ConfigRaises ==
    /\ ev_pc = "question"
    /\ qi <= Len(model_doc.questions)
    /\ ~AlignRaises(model_doc.questions[qi])
    /\ ~ev_config.has_weights
    /\ ev_pc' = "raised"
    /\ UNCHANGED << model_doc, student_doc, ev_config, report, qi, cur, embed >>
    /\ UNCHANGED << choiceVars, alignVars, scoreVars, normVars, modelVars, uploadVars >>

\* the iteration of lines 102-135 for the subpart sp, the embedding model
\* answering cos and the keyword extractor candidates
ScoreWith(sid, sp_index, sp, student, picked, key, encodes) ==
    \E cos \in EvalCosOutcomes(embed, key, encodes), candidates \in EvalCandidates :
        /\ cur' = AfterScoring(cur, sid, sp_index, sp, picked, cos,
                               score_subpart(sp, student, picked, ev_config, cos, candidates),
                               ev_config)
        /\ embed' = Remember(embed, key, encodes, cos)

ScoreSelected(mq, sid, sp, student, picked) ==
    /\ ~ScorerRaises(sp, student, picked, ev_config)
    /\ ScoreWith(sid, SpByNorm(mq, sid), sp, student, picked,
                 EmbedKey(sp.model_answer, TextForScorer(sp, student, picked), ev_config),
                 Encodes(sp, picked,
                         EmbedKey(sp.model_answer, TextForScorer(sp, student, picked),
                                  ev_config)))

\* one iteration of the loop of lines 102-135
ScoreSubpart ==
    /\ ev_pc = "subpart"
    /\ cur.si <= Len(cur.selected_ids)
    /\ ScoreSelected(model_doc.questions[qi], cur.selected_ids[cur.si],
                     model_doc.questions[qi].subparts[SpByNorm(model_doc.questions[qi],
                                                               cur.selected_ids[cur.si])],
                     StudentTextOf(cur.aligned, cur.selected_ids[cur.si]),
                     pick_student_choice(StudentTextOf(cur.aligned, cur.selected_ids[cur.si])))
    /\ UNCHANGED << ev_pc, model_doc, student_doc, ev_config, report, qi >>
    /\ UNCHANGED << choiceVars, alignVars, scoreVars, normVars, modelVars, uploadVars >>

\* the call of line 121 fails on a key the configuration lacks
ScoreRaises ==
    /\ ev_pc = "subpart"
    /\ cur.si <= Len(cur.selected_ids)
    /\ ScorerRaises(model_doc.questions[qi].subparts[SpByNorm(model_doc.questions[qi],
                                                              cur.selected_ids[cur.si])],
                    StudentTextOf(cur.aligned, cur.selected_ids[cur.si]),
                    pick_student_choice(StudentTextOf(cur.aligned, cur.selected_ids[cur.si])),
                    ev_config)
    /\ ev_pc' = "raised"
    /\ UNCHANGED << model_doc, student_doc, ev_config, report, qi, cur, embed >>
    /\ UNCHANGED << choiceVars, alignVars, scoreVars, normVars, modelVars, uploadVars >>

\* lines 137-140
EndQuestion ==
    /\ ev_pc = "subpart"
    /\ cur.si > Len(cur.selected_ids)
    /\ LET mq == model_doc.questions[qi]
           q_result == [cur.q_result EXCEPT !.final_score = cur.awarded_sum]
       IN  report' = [report EXCEPT
                         !.by_question = Put(@, QNo(mq), q_result),
                         !.total_awarded = @ + cur.awarded_sum,
                         !.total_max = @ + TotalMarks(mq)]
    /\ qi' = qi + 1
    /\ ev_pc' = "question"
    /\ UNCHANGED << model_doc, student_doc, ev_config, cur, embed >>
    /\ UNCHANGED << choiceVars, alignVars, scoreVars, normVars, modelVars, uploadVars >>

\* lines 142-149
Return ==
    /\ ev_pc = "question"
    /\ qi > Len(model_doc.questions)
    /\ report' = FinalReport(report)
    /\ ev_pc' = "returned"
    /\ UNCHANGED << model_doc, student_doc, ev_config, qi, cur, embed >>
    /\ UNCHANGED << choiceVars, alignVars, scoreVars, normVars, modelVars, uploadVars >>

Next ==
    \/ Load
    \/ LoadRaises
    \/ BeginQuestion
    \/ QuestionRaises
    \/ ConfigRaises
    \/ ScoreSubpart
    \/ ScoreRaises
    \/ EndQuestion
    \/ Return

Spec == EvalInit /\ [][Next]_vars

(***************************************************************************)
(* C9                                                                      *)
(***************************************************************************)
\* positions holding a parenthesized option letter
ParenPositions(s) ==
    { i \in DOMAIN s : /\ s[i] \in MCQ_LETTERS
                       /\ i > 1 /\ s[i - 1] = "("
                       /\ i < Len(s) /\ s[i + 1] = ")" }

\* positions holding a free-standing single-letter token
LoosePositions(s) ==
    { i \in DOMAIN s : /\ s[i] \in MCQ_LETTERS
                       /\ (i = 1 \/ ~IsWordChar(s[i - 1]))
                       /\ (i = Len(s) \/ ~IsWordChar(s[i + 1])) }

CollectedLetters(s) ==
    { UpperChar(s[i]) : i \in ParenPositions(s) \cup LoosePositions(s) }

\* C9: pick_student_choice returns none when no option letter was collected
\* or when the collected letters are not all the same letter, and otherwise
\* the one collected letter in uppercase; the three examples of the
\* specification give B, none and none.
C9_PickChoice ==
    ch_pc = "done" =>
        /\ CollectedLetters(student_text) = {} => choice = None
        /\ Cardinality(CollectedLetters(student_text)) > 1 => choice = None
        /\ Cardinality(CollectedLetters(student_text)) = 1 =>
               CollectedLetters(student_text) = { choice }
        /\ student_text = ExampleChoose => choice = "B"
        /\ student_text = ExampleMaybe => choice = None
        /\ student_text = ExampleNoIdea => choice = None

C9_Witness ==
    /\ ch_pc = "done"
    /\ student_text = ExampleMaybe
    /\ Cardinality(CollectedLetters(student_text)) = 2
    /\ choice = None

(***************************************************************************)
(* C1, C10                                                                 *)
(***************************************************************************)
\* folding of a key or id: parentheses and periods stripped, lowercase
Fold(k) == Lower(SelectSeq(k, LAMBDA c : c \notin { "(", ")", "." }))

\* the section located for the question of the state
LocatedSection ==
    find_question_section(OrEmptyDict(student_root),
                          extract_digits(model_question.question_number))

ExpectedIds == { Fold(model_question.subparts[i].id) : i \in DOMAIN model_question.subparts }

\* sec is a mapping whose keys fold to distinct expected ids and whose
\* values are non-blank strings
KeysAreExpectedIds(sec, ids) ==
    /\ sec.t = "dict"
    /\ \A i \in DOMAIN sec.keys :
           /\ Fold(sec.keys[i]) \in ids
           /\ sec.vals[i].t = "str"
           /\ ~IsBlank(sec.vals[i].s)
           /\ \A j \in DOMAIN sec.keys : i # j => Fold(sec.keys[i]) # Fold(sec.keys[j])

\* the mapping from each folded key of sec to f(its string)
KeyedTexts(sec, f(_)) ==
    [id \in { Fold(sec.keys[i]) : i \in DOMAIN sec.keys } |->
        f(sec.vals[CHOOSE i \in DOMAIN sec.keys : Fold(sec.keys[i]) = id].s)]

Identity(x) == x

\* C1 as stated: when the located section is a mapping whose keys fold to
\* distinct expected subpart ids and whose values are non-blank strings, the
\* alignment maps each such id to exactly its string and holds nothing else.
C1_Original ==
    al_pc = "done" =>
        LET sec == LocatedSection
        IN  KeysAreExpectedIds(sec, ExpectedIds) => aligned = KeyedTexts(sec, Identity)

\* C1 as amended: under the same condition, and the folded keys being
\* non-empty, the alignment maps each such id to its string with leading and
\* trailing whitespace removed and holds nothing else.
C1_AlignedStripped ==
    al_pc = "done" =>
        LET sec == LocatedSection
        IN  (/\ KeysAreExpectedIds(sec, ExpectedIds)
             /\ \A i \in DOMAIN sec.keys : Fold(sec.keys[i]) # << >>)
                => aligned = KeyedTexts(sec, Strip)

C1_Witness ==
    /\ al_pc = "done"
    /\ KeysAreExpectedIds(LocatedSection, ExpectedIds)
    /\ LocatedSection.keys = << << "(", "a", ")" >>, << "b" >> >>
    /\ LocatedSection.vals = << Str(<< " ", "f", " " >>), Str(<< "f" >>) >>
    /\ aligned = [id \in { << "a" >>, << "b" >> } |-> << "f" >>]

\* C10: a located section that is a string or a sequence is aligned, when
\* the question has exactly one subpart, to that subpart's id with the
\* section's flattened text, and to nothing when the question has two or
\* more subparts; "question 2": "f g" goes to the sole subpart.
C10_SingleBlob ==
    al_pc = "done" =>
        LET sec == LocatedSection
        IN  sec.t \in { "str", "list" } =>
        /\ Len(model_question.subparts) = 1 =>
               aligned = [id \in { Fold(model_question.subparts[1].id) } |->
                              flatten_value(sec)]
        /\ Len(model_question.subparts) >= 2 => aligned = EmptyMap
        /\ (/\ Len(model_question.subparts) = 1
            /\ student_root = Dct(<< << "q", "u", "e", "s", "t", "i", "o", "n", " ", "2" >> >>,
                                  << Str(<< "f", " ", "g" >>) >>))
               => Range(aligned) = { << "f", " ", "g" >> }

C10_Witness ==
    /\ al_pc = "done"
    /\ LocatedSection = Lst(<< Str(<< "f" >>), Lst(<< Str(<< "g" >>), Null >>) >>)
    /\ Len(model_question.subparts) = 1
    /\ aligned = [id \in { << "b" >> } |-> << "f", " ", "g", " " >>]

(***************************************************************************)
(* C8                                                                      *)
(***************************************************************************)
\* C8: every marks value compute_subpart_score returns, in the
\* multiple-choice branch and in the subjective branch and for every
\* max_marks, is an integer multiple of 0.25.
C8_QuarterMarks ==
    sc_pc = "done" => sc_result.marks % (ScoreScale \div 4) = 0

\* a subjective answer whose marks the rounding changed
C8_Witness ==
    /\ sc_pc = "done"
    /\ ~sc_args.is_mcq
    /\ sc_result.marks > 0
    /\ sc_result.marks * 10000 # Bump(sc_result.combined) * sc_args.max_marks

(***************************************************************************)
(* C7                                                                      *)
(***************************************************************************)
\* C7: in the subjective branch, whenever the combined score, after the
\* length penalty and the clamp to [0, 1], is below min_partial_score, the
\* marks are 0 for every max_marks > 0: the bump is never applied below the
\* floor.
C7_Floor ==
    (/\ sc_pc = "done"
     /\ ~sc_args.is_mcq
     /\ sc_result.combined < 10000 * sc_args.config.min_partial_score)
        => sc_result.marks = 0

\* a non-zero combined score below the floor that the bump would have lifted
\* over it, on a subpart worth marks
C7_Witness ==
    /\ sc_pc = "done"
    /\ ~sc_args.is_mcq
    /\ sc_args.max_marks > 0
    /\ sc_result.combined > 0
    /\ sc_result.combined < 10000 * sc_args.config.min_partial_score
    /\ sc_result.combined + 100000 >= 10000 * sc_args.config.min_partial_score
    /\ sc_result.marks = 0

(***************************************************************************)
(* C6                                                                      *)
(***************************************************************************)
\* marks, in 1/ScoreScale, is a multiple of 0.25 nearest to max_marks, in
\* hundredths
IsNearestQuarter(marks, max_marks) ==
    /\ marks % (ScoreScale \div 4) = 0
    /\ 2 * marks - 200 * max_marks <= ScoreScale \div 4
    /\ 200 * max_marks - 2 * marks <= ScoreScale \div 4

\* C6: in the multiple-choice branch with a detected student choice X, the
\* marks are max_marks rounded to the nearest 0.25 if the semantic
\* similarity of "(X)" and the model answer is at least
\* mcq_min_correct_score, and 0 otherwise, whatever the keyword score, the
\* length ratio, the floor and the bump are.
C6_McqMarks ==
    (ev_pc = "subpart" /\ cur.last.mcq /\ cur.last.choice # None) =>
        LET sp == model_doc.questions[qi].subparts[cur.last.sp]
        IN  IF semantic_similarity(sp.model_answer, Rendered(cur.last.choice), ev_config,
                                   cur.last.cos) >= 100 * ev_config.mcq_min_correct_score
            THEN IsNearestQuarter(cur.last.res.marks, sp.marks)
            ELSE cur.last.res.marks = 0

\* a detected choice given full marks, rounded up to a quarter, although the
\* combined score is below the floor of the subjective branch
C6_Witness ==
    /\ ev_pc = "subpart"
    /\ cur.last.mcq
    /\ cur.last.choice # None
    /\ cur.last.res.combined < 10000 * ev_config.min_partial_score
    /\ cur.last.res.marks > 100 * model_doc.questions[qi].subparts[cur.last.sp].marks

(***************************************************************************)
(* C2, C3, C4, C5                                                          *)
(***************************************************************************)
\* the question whose loop has run to its end, and its result
QuestionScored == ev_pc = "subpart" /\ cur.si > Len(cur.selected_ids)

\* the aligned text of the declared subpart i is non-blank
HasText(mq, aligned_map, i) ==
    /\ norm_id(mq.subparts[i].id) \in DOMAIN aligned_map
    /\ ~IsBlank(aligned_map[norm_id(mq.subparts[i].id)])

\* the first n declared subparts with text, in declaration order
RECURSIVE FirstWithText(_, _, _, _)
FirstWithText(mq, aligned_map, i, n) ==
    IF i > Len(mq.subparts) \/ n = 0 THEN << >>
    ELSE IF HasText(mq, aligned_map, i)
         THEN << i >> \o FirstWithText(mq, aligned_map, i + 1, n - 1)
         ELSE FirstWithText(mq, aligned_map, i + 1, n)

\* C2: with selection_policy "first_n" and a positive integer
\* attempt_required N, the subparts scored are exactly the first N declared
\* subparts whose aligned text is non-blank, all of them when fewer than N
\* have text, and every other declared subpart stays at zero marks.
C2_FirstN ==
    (/\ QuestionScored
     /\ model_doc.questions[qi].selection_policy = "first_n"
     /\ model_doc.questions[qi].attempt_required.kind = "int"
     /\ model_doc.questions[qi].attempt_required.n > 0)
        => LET mq == model_doc.questions[qi]
               expected == FirstWithText(mq, cur.aligned, 1, mq.attempt_required.n)
               expected_ids == [k \in DOMAIN expected |-> mq.subparts[expected[k]].id]
           IN  /\ [k \in DOMAIN cur.scored |-> mq.subparts[cur.scored[k]].id] = expected_ids
               /\ \A i \in DOMAIN mq.subparts :
                      mq.subparts[i].id \notin Range(expected_ids)
                          => cur.q_result.subparts[mq.subparts[i].id].marks = 0

\* the student text of the declared subpart i holds conflicting option letters
AmbiguousChoice(mq, aligned_map, i) ==
    /\ is_mcq(mq.subparts[i].model_answer)
    /\ Cardinality(CollectedLetters(StudentTextOf(aligned_map, norm_id(mq.subparts[i].id)))) > 1

\* C3: a question in which a subpart received zero credit because the
\* question's section could not be located, because a multiple-choice answer
\* held conflicting option letters, or because the student text was absent
\* or blank, has a non-empty notes list.
C3_ZeroCreditNoted ==
    QuestionScored =>
        LET mq == model_doc.questions[qi]
        IN  (\E i \in DOMAIN mq.subparts :
                 /\ cur.q_result.subparts[mq.subparts[i].id].marks = 0
                 /\ \/ find_question_section(student_doc, mq.question_number) = NotFound
                    \/ AmbiguousChoice(mq, cur.aligned, i)
                    \/ ~HasText(mq, cur.aligned, i))
                => cur.q_result.notes # << >>

RECURSIVE SumOfMarks(_, _)
SumOfMarks(entries, ids) ==
    IF ids = {} THEN 0
    ELSE LET id == CHOOSE x \in ids : TRUE
         IN  entries[id].marks + SumOfMarks(entries, ids \ { id })

\* C4: in every question of a report, final_score is the sum of the marks
\* recorded for the question's subparts, and it is not reduced when that sum
\* exceeds the declared total_marks.
C4_FinalScoreIsSum ==
    ev_pc \in { "question", "returned" } =>
        \A qno \in DOMAIN report.by_question :
            report.by_question[qno].final_score
                = SumOfMarks(report.by_question[qno].subparts,
                             DOMAIN report.by_question[qno].subparts)

\* C5: for a model document that is a mapping with "questions", whatever
\* the student document is and whether or not a section is located, a
\* subpart id is in the section or a model subpart carries an id, the call
\* does not abort, and the report it returns has an entry for every model
\* question.
C5_NeverAborts ==
    model_doc.shape = "keyed" =>
        /\ ev_pc # "raised"
        /\ ev_pc = "returned" =>
               \A i \in DOMAIN model_doc.questions :
                   QNo(model_doc.questions[i]) \in DOMAIN report.by_question

(***************************************************************************)
(* C11, C12                                                                *)
(***************************************************************************)
\* the digits of the question number, as align_student_to_model passes them
QDigits(mq) == extract_digits(Strip(mq.question_number))

\* the first index of a non-empty set of indexes
FirstOf(idx) == CHOOSE i \in idx : \A j \in idx : i <= j

\* the document that holds entry i of the mapping root and nothing else
Only(root, i) == Dct(<< root.keys[i] >>, << root.vals[i] >>)

\* the top-level keys that are one of the label spellings of the question
ExactTop(root, qnum) ==
    { i \in DOMAIN root.keys :
          \E c \in candidate_keys_for(qnum) : norm_id(root.keys[i]) = norm_id(c) }

\* the top-level keys that match, by a label spelling or by their digits
MatchingTop(root, qnum) ==
    { i \in DOMAIN root.keys :
          \/ i \in ExactTop(root, qnum)
          \/ qnum # << >> /\ extract_digits(norm_id(root.keys[i])) = qnum }

\* the top-level mappings that hold a matching key
MatchingNested(root, qnum) ==
    { i \in DOMAIN root.vals :
          root.vals[i].t = "dict" /\ MatchingTop(root.vals[i], qnum) # {} }

\* C11: among the top-level keys an exactly matching key is chosen in
\* preference to a key that matches only by its digits, whatever the order
\* of the keys: the alignment is that of the first exactly matching key.
C11_ExactFirst ==
    (/\ al_pc = "done"
     /\ student_root.t = "dict"
     /\ ExactTop(student_root, QDigits(model_question)) # {})
        => aligned = align_student_to_model(
                         model_question,
                         Only(student_root,
                              FirstOf(ExactTop(student_root, QDigits(model_question)))))

\* C12: a key one level down is used only when no top-level key matches,
\* and when neither a top-level nor a one-level-nested key matches the
\* alignment is the empty mapping.
C12_NestedSecond ==
    (al_pc = "done" /\ student_root.t = "dict") =>
        LET top == MatchingTop(student_root, QDigits(model_question))
            nested == MatchingNested(student_root, QDigits(model_question))
        IN  IF top # {}
            THEN aligned = align_student_to_model(model_question,
                                                  Only(student_root, FirstOf(top)))
            ELSE IF nested # {}
                 THEN aligned = align_student_to_model(model_question,
                                                       student_root.vals[FirstOf(nested)])
                 ELSE aligned = EmptyMap

\* a matching key one level down stands before a matching top-level key, and
\* the text aligned is the one under the top-level key
C12_Witness ==
    /\ al_pc = "done"
    /\ student_root.t = "dict"
    /\ MatchingTop(student_root, QDigits(model_question)) # {}
    /\ MatchingNested(student_root, QDigits(model_question)) # {}
    /\ FirstOf(MatchingNested(student_root, QDigits(model_question)))
           < FirstOf(MatchingTop(student_root, QDigits(model_question)))
    /\ aligned = [k \in { << "a" >> } |-> << "f" >>]

(***************************************************************************)
(* C13                                                                     *)
(***************************************************************************)
\* the question stored last in the report
StoredQuestion == model_doc.questions[qi - 1]

\* the declared subpart i is one of those selected for scoring
Selected(mq, selected_ids, i) ==
    \E k \in DOMAIN selected_ids : selected_ids[k] = engine_norm_id(mq.subparts[i].id)

AllStored == ev_pc = "question" /\ qi > Len(model_doc.questions)

\* C14: in a returned report whose total_max is not 0 the percentage is
\* total_awarded / total_max * 100 to the nearest hundredth of a percent, in
\* one whose total_max is 0 it is 0, and the step that computes it never
\* fails: it is enabled whenever all questions are stored.
C14_Percentage ==
    /\ AllStored => ENABLED Return
    /\ ev_pc = "returned" =>
           IF report.total_max = 0 THEN report.percentage = 0
           ELSE LET error == report.percentage * report.total_max - 100 * report.total_awarded
                IN  2 * error <= report.total_max /\ -2 * error <= report.total_max

\* a report with marks awarded and a total that rounds to 0
C14_Witness ==
    /\ ev_pc = "returned"
    /\ report.total_awarded > 0
    /\ report.total_max = 0
    /\ report.percentage = 0

(***************************************************************************)
(* C15                                                                     *)
(***************************************************************************)
\* C15: a model document that is a bare sequence of questions is evaluated
\* as the document with that sequence under "questions" is: the call does
\* not abort before the first question, its questions are processed, and the
\* report it returns has each of them with its total_marks.
C15_BareSequence ==
    model_doc.shape = "bare" =>
        /\ ev_pc = "raised" => qi > 0
        /\ ev_pc = "returned" =>
               \A i \in DOMAIN model_doc.questions :
                   /\ QNo(model_doc.questions[i]) \in DOMAIN report.by_question
                   /\ report.by_question[QNo(model_doc.questions[i])].total_marks
                          = TotalMarks(model_doc.questions[i])

(***************************************************************************)
(* C16                                                                     *)
(***************************************************************************)
\* C16: under a configuration without the weights or without the thresholds
\* key no report is returned, whatever the model and student documents are.
C16_FailsOutright ==
    ~(ev_config.has_weights /\ ev_config.has_thresholds) => ev_pc # "returned"

(***************************************************************************)
(* C17                                                                     *)
(***************************************************************************)
\* a subjective answer has been scored
SubjectiveScored ==
    sc_pc = "done" /\ ~sc_args.is_mcq /\ ~IsBlank(sc_args.student_answer)

\* w_sem * sem + w_kw * kw of line 180, in units of 10^-5
RawCombined == sc_args.config.w_sem * sc_result.sem + sc_args.config.w_kw * sc_result.kw

\* the ratio of normalized student tokens to normalized model tokens is
\* below min_length_ratio
BelowMinLength ==
    LET ratio == length_ratio(sc_args.model_answer, sc_args.student_answer, sc_args.config)
    IN  100 * ratio[1] < sc_args.config.min_length_ratio * ratio[2]

\* C17: in the subjective branch the combined score is left as it is unless
\* the length ratio is below min_length_ratio, the factor it is multiplied by
\* lies in [0.3, 1.0], and so the penalized combined score (which the code
\* caps at 1) is at most the raw weighted score and at least 30% of it.
C17_LengthPenalty ==
    SubjectiveScored =>
        /\ ~BelowMinLength => sc_result.combined = Min(1000000, 10 * RawCombined)
        /\ PenaltyFactor(length_ratio(sc_args.model_answer, sc_args.student_answer,
                                      sc_args.config), sc_args.config) \in 3..10
        /\ sc_result.combined <= 10 * RawCombined
        /\ sc_result.combined >= Min(1000000, 3 * RawCombined)

\* an answer so short that the power is below 0.3 and the factor is 0.3
C17_Witness ==
    /\ SubjectiveScored
    /\ BelowMinLength
    /\ RawCombined > 0
    /\ PenaltyPower(length_ratio(sc_args.model_answer, sc_args.student_answer,
                                 sc_args.config), sc_args.config) < 3
    /\ sc_result.combined = 3 * RawCombined

(***************************************************************************)
(* C18                                                                     *)
(***************************************************************************)
\* C18: normalize_text is idempotent: normalizing a normalized text again
\* under the same options (stopword removal, stemming, lemmatization, number
\* masking) returns it unchanged.
C18_Idempotent == nm_pc = "twice" => nm_twice = nm_once

(***************************************************************************)
(* C19                                                                     *)
(***************************************************************************)
\* the keywords extracted from the model answer of the call
ExtractedKeys ==
    keywords(sc_args.model_answer, sc_args.config.top_k, sc_args.config.minlen,
             sc_ext.candidates)

\* the number of extracted keywords found in the student's tokens
Hits ==
    Cardinality({ i \in DOMAIN ExtractedKeys :
                      KeyHits(Normalized(ExtractedKeys[i], sc_args.config),
                              Range(Split(Normalized(sc_args.student_answer, sc_args.config))),
                              sc_args.config) })

\* the scorer went past its blank-answer return and called keyword_match_score
KeywordScored == sc_pc = "done" /\ ~IsBlank(sc_args.student_answer)

\* C19: keyword_match_score returns 0 when the model answer or the student
\* answer is empty, when the student answer normalizes to empty and when no
\* keyword was extracted; otherwise it returns hits / number of extracted
\* keywords (to four decimals), a value in [0, 1].
C19_KeywordScore ==
    /\ (sc_pc = "done" /\ sc_args.student_answer = << >>)
           => keyword_match_score(sc_args.model_answer, sc_args.student_answer,
                                  sc_args.config, sc_ext.candidates) = 0
    /\ KeywordScored =>
           IF \/ sc_args.model_answer = << >>
              \/ Normalized(sc_args.student_answer, sc_args.config) = << >>
              \/ ExtractedKeys = << >>
           THEN sc_result.kw = 0
           ELSE /\ sc_result.kw \in 0..ScoreScale
                /\ 2 * (sc_result.kw * Len(ExtractedKeys) - Hits * ScoreScale)
                       <= Len(ExtractedKeys)
                /\ 2 * (Hits * ScoreScale - sc_result.kw * Len(ExtractedKeys))
                       <= Len(ExtractedKeys)

\* one of two keywords found: the score is a half
C19_Witness ==
    /\ KeywordScored
    /\ Len(ExtractedKeys) = 2
    /\ Hits = 1
    /\ sc_result.kw = ScoreScale \div 2

(***************************************************************************)
(* C20                                                                     *)
(***************************************************************************)
\* the scorer went past its blank-answer return and called semantic_similarity
SimilarityScored == sc_pc = "done" /\ ~IsBlank(sc_args.student_answer)

\* one of the two texts is empty after normalization
EmptyNormalized ==
    \/ Normalized(sc_args.model_answer, sc_args.config) = << >>
    \/ Normalized(sc_args.student_answer, sc_args.config) = << >>

\* C20: semantic_similarity returns 0 when either text is empty after
\* normalization, whatever the embedding model would have answered (it is not
\* asked), and for every cosine in [-1, 1] the result lies in [0, 1], with
\* rescale_to_unit on and off.
C20_SimilarityRange ==
    (SimilarityScored /\ sc_ext.cos \in -ScoreScale..ScoreScale) =>
        /\ sc_result.sem \in 0..ScoreScale
        /\ EmptyNormalized => sc_result.sem = 0

\* a student answer of stopwords only: the similarity is 0 although the
\* embedding model would have answered with a positive cosine
C20_Witness ==
    /\ SimilarityScored
    /\ Normalized(sc_args.model_answer, sc_args.config) # << >>
    /\ Normalized(sc_args.student_answer, sc_args.config) = << >>
    /\ sc_ext.cos > 0
    /\ sc_result.sem = 0

(***************************************************************************)
(* C21, C22                                                                *)
(***************************************************************************)
\* the threads that have received an instance from _get_model
Returned == { t \in Threads : gm_ret[t] # NotReturned }

\* C21: under every interleaving of the threads calling _get_model the
\* embedding model is constructed at most once, the global holds nothing but
\* a completed construction, and every caller receives that one instance.
C21_Singleton ==
    /\ gm_built <= 1
    /\ gm_model.id <= gm_built
    /\ \A t \in Returned : gm_ret[t] = gm_model /\ gm_ret[t].id = 1

\* every thread has called once and received the one instance
C21_Witness ==
    /\ gm_built = 1
    /\ Returned = Threads
    /\ \A t \in Threads : gm_calls[t] = 1 /\ gm_pc[t] = "idle"
    /\ gm_lock = 0

\* C22: a call is served by its own configuration alone, whatever calls ran
\* earlier or run concurrently: the embedding model it receives, whose
\* cosines make its report, is the one its configuration names.
C22_Independent ==
    \A t \in Returned : gm_pc[t] = "idle" => gm_ret[t].name = gm_name[t]

(***************************************************************************)
(* C23, C24                                                                *)
(***************************************************************************)
\* the keys of the mappings in the subtree v
RECURSIVE KeysBelow(_)
KeysBelow(v) ==
    IF v.t \in { "dict", "list" }
    THEN (IF v.t = "dict" THEN Range(v.keys) ELSE {})
             \cup UNION { KeysBelow(v.vals[i]) : i \in DOMAIN v.vals }
    ELSE {}

\* a non-empty sequence of strings
StringSequence(v) ==
    v.t = "list" /\ v.vals # << >> /\ \A j \in DOMAIN v.vals : v.vals[j].t = "str"

\* entry i of the section is the only place where a key folds to id
OnlyMatch(sec, i, id) ==
    /\ Fold(sec.keys[i]) = id
    /\ \A j \in DOMAIN sec.keys :
           j # i => \A k \in { sec.keys[j] } \cup KeysBelow(sec.vals[j]) : Fold(k) # id

\* C23: when a key of the located section folds to an expected subpart id
\* and its value is a sequence of strings, no other key matching that id,
\* the subpart's aligned text is those strings joined by spaces, each of
\* them once.
C23_SequenceOnce ==
    (al_pc = "done" /\ LocatedSection.t = "dict") =>
        \A i \in DOMAIN LocatedSection.keys :
            (/\ Fold(LocatedSection.keys[i]) \in ExpectedIds \ { << >> }
             /\ StringSequence(LocatedSection.vals[i])
             /\ ~IsBlank(flatten_value(LocatedSection.vals[i]))
             /\ OnlyMatch(LocatedSection, i, Fold(LocatedSection.keys[i])))
                => /\ Fold(LocatedSection.keys[i]) \in DOMAIN aligned
                   /\ aligned[Fold(LocatedSection.keys[i])]
                          = Strip(flatten_value(LocatedSection.vals[i]))

\* the string leaves of the subtree v under key that have a key folding to
\* id on their path; under says that a key above has folded to it, and the
\* items of a sequence are under the key of the sequence
RECURSIVE LeavesUnder(_, _, _, _)
LeavesUnder(key, v, id, under) ==
    IF v.t = "str" THEN (IF under \/ Fold(key) = id THEN { v.s } ELSE {})
    ELSE IF v.t = "dict"
         THEN UNION { LeavesUnder(v.keys[i], v.vals[i], id, under \/ Fold(key) = id) :
                          i \in DOMAIN v.vals }
    ELSE IF v.t = "list"
         THEN UNION { LeavesUnder(key, v.vals[i], id, under) : i \in DOMAIN v.vals }
    ELSE {}

\* the words of the leaves of the section that may contribute to id
WordsFor(sec, id) ==
    UNION { Range(Split(leaf)) :
                leaf \in UNION { LeavesUnder(sec.keys[i], sec.vals[i], id, FALSE) :
                                     i \in DOMAIN sec.keys } }

\* C24: in a mapping section every key of the alignment is an expected
\* subpart id, and the aligned text of an id is made of string leaves that
\* have a key folding to that id on their path from the section (the items of
\* a sequence being under the key of the sequence); a leaf without such a
\* key contributes to no subpart.
C24_OnlyMatchingKeys ==
    (al_pc = "done" /\ LocatedSection.t = "dict") =>
        \A id \in DOMAIN aligned :
            /\ id \in ExpectedIds
            /\ Range(Split(aligned[id])) \subseteq WordsFor(LocatedSection, id)

\* "f" under a key folding to the expected id a is aligned, "f" and "g"
\* under the key b, which is no expected id, are not
C24_Witness ==
    /\ al_pc = "done"
    /\ ExpectedIds = { << "a" >> }
    /\ LocatedSection = Dct(<< << "(", "a", ")" >>, << "b" >> >>,
                            << Str(<< "f" >>), Lst(<< Str(<< "f" >>), Str(<< "g" >>) >>) >>)
    /\ aligned = [id \in { << "a" >> } |-> << "f" >>]

(***************************************************************************)
(* C25                                                                     *)
(***************************************************************************)
\* attempt_required of the question, or the default of the configuration cfg
AttemptUnder(mq, cfg) ==
    IF mq.attempt_required.kind # "absent" THEN mq.attempt_required
    ELSE cfg.default_attempt_required

\* selection_policy of the question, or the default of the configuration cfg
PolicyUnder(mq, cfg) ==
    IF mq.selection_policy # "" THEN mq.selection_policy ELSE cfg.default_policy

\* C25: for a question without attempt_required or without selection_policy
\* the values reported in its policy block and used to select its subparts
\* are the defaults of the configuration passed to the call: under first_n
\* with an integer N no more than N subparts are scored.
C25_PassedDefaults ==
    QuestionScored =>
        /\ cur.q_result.policy.attempt_required
               = AttemptUnder(model_doc.questions[qi], ev_config)
        /\ cur.q_result.policy.extra_attempt_policy
               = PolicyUnder(model_doc.questions[qi], ev_config)
        /\ (/\ PolicyUnder(model_doc.questions[qi], ev_config) = "first_n"
            /\ AttemptUnder(model_doc.questions[qi], ev_config).kind = "int")
               => Len(cur.selected_ids) <= AttemptUnder(model_doc.questions[qi], ev_config).n

(***************************************************************************)
(* C26                                                                     *)
(***************************************************************************)
\* C26: for every max_marks >= 0, a multiple of 0.25 or not, the marks of
\* compute_subpart_score lie between 0 and max_marks, for multiple-choice and
\* for subjective subparts (marks in 1/ScoreScale, max_marks in hundredths).
C26_MarksWithinMax ==
    sc_pc = "done" =>
        /\ 0 <= sc_result.marks
        /\ 100 * sc_result.marks <= ScoreScale * sc_args.max_marks

(***************************************************************************)
(* C27                                                                     *)
(***************************************************************************)
\* post-penalty combined scores to compare a scored answer with, in
\* millionths: a grid over [0, 1] and the values next to the thresholds
CombinedGrid ==
    { 12500 * k : k \in 0..80 } \cup { 199999, 399999, 449999, 499999, 500001 }

\* the marks of lines 212-223 for the post-penalty combined score c, all
\* else as in the scored call
MarksAt(c) ==
    TeacherRounding(final_marks(sc_result.sem, c, sc_args.max_marks, sc_args.config, FALSE))

\* C27: for a fixed max_marks and configuration the subjective marks are
\* non-decreasing in the post-penalty combined score: a lower combined score
\* never gives more marks than the scored one, a higher one never fewer.
C27_Monotone ==
    SubjectiveScored =>
        /\ sc_result.marks = MarksAt(sc_result.combined)
        /\ \A c \in CombinedGrid :
               /\ c <= sc_result.combined => MarksAt(c) <= sc_result.marks
               /\ c >= sc_result.combined => MarksAt(c) >= sc_result.marks

\* a scored answer at or just above 0.5, with a bumped score, a score below
\* the floor and a higher score to compare with
C27_Witness ==
    /\ SubjectiveScored
    /\ sc_result.combined \in 500000..549999
    /\ sc_result.marks > 0
    /\ \E c \in CombinedGrid : c < sc_result.combined /\ MarksAt(c) = sc_result.marks
    /\ \E c \in CombinedGrid : c < sc_result.combined /\ MarksAt(c) = 0
    /\ \E c \in CombinedGrid : c > sc_result.combined /\ MarksAt(c) > sc_result.marks

(***************************************************************************)
(* C28                                                                     *)
(***************************************************************************)
\* the subpart scored by the last iteration of the loop
LastSubpart == model_doc.questions[qi].subparts[cur.last.sp]

\* C28: under the default configuration, when the model answer of a
\* multiple-choice subpart is exactly "(X)" for a letter X of A-D and the
\* single choice detected in the student's answer is X, the orchestrator
\* awards the full marks of the subpart.
C28_SameChoiceFullMarks ==
    (/\ ev_pc = "subpart"
     /\ cur.last # NoLast
     /\ ev_config = CONFIG
     /\ cur.last.mcq
     /\ cur.last.choice \in { "A", "B", "C", "D" }
     /\ LastSubpart.model_answer = Rendered(cur.last.choice))
        => 100 * cur.last.res.marks = ScoreScale * LastSubpart.marks

(***************************************************************************)
(* C29                                                                     *)
(***************************************************************************)
RECURSIVE SumOfFinalScores(_, _)
\* the sum of final_score over the entries qnos of by_question
SumOfFinalScores(entries, qnos) ==
    IF qnos = {} THEN 0
    ELSE LET qno == CHOOSE x \in qnos : TRUE
         IN  entries[qno].final_score + SumOfFinalScores(entries, qnos \ { qno })

RECURSIVE SumOfTotalMarks(_, _)
\* the sum of total_marks over the entries qnos of by_question
SumOfTotalMarks(entries, qnos) ==
    IF qnos = {} THEN 0
    ELSE LET qno == CHOOSE x \in qnos : TRUE
         IN  entries[qno].total_marks + SumOfTotalMarks(entries, qnos \ { qno })

\* C29: in every returned report, whatever the question_number strings of
\* the model document, by_question has exactly one entry per model question,
\* total_awarded is the sum of final_score over its entries and total_max the
\* sum of their total_marks.
C29_TotalsMatchEntries ==
    ev_pc = "returned" =>
        /\ Cardinality(DOMAIN report.by_question) = Len(model_doc.questions)
        /\ report.total_awarded
               = SumOfFinalScores(report.by_question, DOMAIN report.by_question)
        /\ report.total_max
               = SumOfTotalMarks(report.by_question, DOMAIN report.by_question)

(***************************************************************************)
(* C30                                                                     *)
(***************************************************************************)
\* the last request handled was a start_evaluation answered with 200
StartedEvaluation == up_last.op = "start_evaluation" /\ up_last.code = 200

\* C30: after any sequence of uploads and evaluations a successful
\* start_evaluation changes exactly the pending submission it looked up,
\* from pending to evaluated: the submission it found is no longer pending,
\* and every other document, the already evaluated ones included, is as it
\* was before the request.
C30_EvaluatesTheFound ==
    StartedEvaluation =>
        /\ up_prev[up_last.found].status = "pending"
        /\ uploads[up_last.found].status = "evaluated"
        /\ \A i \in DOMAIN uploads : i # up_last.found => uploads[i] = up_prev[i]

====
